---- MODULE Spec2Model ----
(***************************************************************************)
(* A model of the EEW client (src/src/client/client.py): the ingest path   *)
(* (on_eew, new_alert, update_alert, get_eew) over the TTL alert table,    *)
(* and the transport supervisor (ws_connect, _get_eew_loop).               *)
(*                                                                         *)
(* Every handler of the ingest path runs without a suspension point (the   *)
(* coroutines it awaits never yield to the event loop), so each one is a   *)
(* single atomic action that reads the clock once.                         *)
(***************************************************************************)
EXTENDS Integers, Sequences, FiniteSets, TLC

\* ------------------------------------------------------------------ bounds
\* the alert ids and serials the upstream may publish
Ids == {"A", "B"}
MaxSerial == 3
Serials == 1..MaxSerial
\* number of registered notification clients (Client.notification_client)
NumClients == 2
Clients == 1..NumClients
\* the clock advances in steps of TickSeconds up to MaxTime (seconds)
TickSeconds == 1500
MaxTime == 6000
\* at most MaxCalcs computations are ever started, MaxSnapshot bulletins per poll
MaxCalcs == 3
MaxSnapshot == 2
\* at most MaxFaults notifier calls raise or never return
MaxFaults == 1
\* float intensities are taken in hundredths, from IntensityBelow hundredths
\* under zero to IntensityHigh
IntensityBelow == 100
IntensityHigh == 800
IntensityLow == 0 - IntensityBelow
\* request() is called with retry in 0..MaxRetry; at most MaxFailures fetches
\* of the poller fail in a row
MaxRetry == 2
MaxFailures == 2

\* get_wave_model is called from NumThreads threads; at most MaxBuilds models
\* are built after import
NumThreads == 2
MaxBuilds == 3

\* the scanned directory has at most MaxEntries entries
MaxEntries == 3

\* at most MaxFrames frames arrive during one handshake
MaxFrames == 3

\* the time without a frame is followed in steps of IdleStep up to MaxIdle seconds
IdleStep == 30
MaxIdle == 120

\* the fetches that outlive their poller loop are counted up to MaxOrphans
MaxOrphans == 1

\* ------------------------------------------------------- program constants
\* TTLCache(maxsize=inf, ttl=60 * 60)
TTL == 60 * 60

VARIABLES
    now,          \* the TTLCache timer (time.monotonic), in seconds
    eew_source,   \* Client.__eew_source: none (accept all) or the list of enabled providers
    alerts,       \* Client.alerts: id -> [serial, time, at, expires, calc]; at is the
                  \* instant of the write, expires the TTLCache link's expiry
    calcs,        \* every EarthquakeData._calc_task ever created: handle -> [id, serial, st]
    trace,        \* the effects of the handlers in program order (calc start,
                  \* cancel request, notifier tasks created)
    last          \* the handler that ran last, the ids of its bulletins and what each stood for

ingestVars == <<now, eew_source, alerts, calcs, trace, last>>

VARIABLES
    pc,               \* where the supervisor coroutine stands:
                      \*   "top"     head of the while loop (running)
                      \*   "dial"    awaiting HTTPClient.ws_connect (connect + verify)
                      \*   "recv"    awaiting ExpTechWebSocket.pool_event
                      \*   "verify"  inside pool_event, awaiting the reply to a re-subscribe
                      \*   "closing" awaiting self._ws.close() in the reconnect handler
                      \*   "sleep"   awaiting asyncio.sleep(_reconnect_delay)
                      \*   "http"    inside the inline _get_eew_loop
                      \*   "returned" ws_connect has left its while loop
    closed,           \* Client.__closed
    websocket_config, \* whether Client.websocket_config is set
    ws,               \* Client._ws: "none", "open" or "closed"
    ready,            \* Client.__ready
    in_reconnect,     \* ws_connect's local in_reconnect
    delay,            \* ws_connect's local _reconnect_delay
    taskSt,           \* ws_connect's local task (the poller started while reconnecting):
                      \*   "none", "running", "cancelling" (cancel() requested, the
                      \*   CancelledError not yet delivered), "done"
    buffered,         \* the socket's reader already holds a frame: the pending
                      \*   receive returns without suspending the supervisor
    ws_node,          \* HTTPClient._current_ws_node_index
    authFailed,       \* history: a subscribe was answered with 401 or 403
    prevDelay,        \* history: the delay of the previous wait, 0 once a
                      \*   subscribe has been accepted (code 200) since
    closeRequested,   \* history: Client.close() was called from outside the supervisor
    fetching,         \* the poller loops whose get_eew task is in flight: "task"
                      \*   (the reconnect poller), "inline" (the loop run by connect())
    cause,            \* history: what sent the supervisor into its reconnect
                      \*   handler last ("none" once the socket is usable again)
    idle,             \* the seconds for which pool_event has been awaiting a frame
    rejected,         \* history: the socket on which the last 401 or 403 was
                      \*   received: "none", "open" or "closed"
    orphans           \* the get_eew tasks still in flight whose poller loop has
                      \*   returned (counted up to MaxOrphans)

wsVars == <<pc, closed, websocket_config, ws, ready, in_reconnect, delay, taskSt,
            buffered, ws_node, authFailed, prevDelay, closeRequested, fetching,
            cause, idle, rejected, orphans>>

VARIABLES
    outcome,      \* the notifier tasks the event loop has run so far: index of the
                  \*   task's creation in trace -> "returned", "raised", "suspended"
                  \*   (the call never returns) or "skipped" (never called)
    req,          \* the HTTPClient.request call in progress and the node in use
    poll          \* the _get_eew_loop of HTTP mode and its get_eew task

VARIABLES
    pool,         \* HTTPClient's node pool: node_latencies, __current_node_index, __base_url
    wave,         \* wave_model_cache and the threads inside get_wave_model
    intensity,    \* the Intensity built last: _float_value, _value, _display
    loader,       \* load_notification_clients: the directory scanned and
                  \*   Client.notification_client
    hs            \* a subscribe handshake: the frames received by wait_for_verify
                  \*   and how verify() ended

libVars == <<pool, wave, intensity, loader, hs>>

VARIABLES
    bot,          \* DiscordNotification: alerts, update_eew_messages_loop and the clock
    sock,         \* one ExpTechWebSocket read frame by frame: the listeners
                  \*   registered, the frames read and what became of each
    quake         \* one EarthquakeData: _expected_intensity and _city_max_intensity

extVars == <<bot, sock, quake>>

ioVars == <<outcome, req, poll, libVars, extVars>>

\* Client.__init__: None when eew_source.all is set, else the enabled providers
SourceFilter(all, enabled) ==
    [none |-> all, list |-> IF all THEN {} ELSE enabled]

\* a bulletin as delivered to on_eew (the fields the ingest path reads)
Bulletin(id, serial, author, time) ==
    [id |-> id, serial |-> serial, author |-> author, time |-> time]

\* ---------------------------------------------------------------- helpers
Ev(kind, id, serial, calc, client) ==
    [kind |-> kind, id |-> id, serial |-> serial, calc |-> calc, client |-> client]

RECURSIVE DispatchAll(_, _, _, _, _)
\* for client in self.notification_client: self._loop.create_task(client.<kind>(eew))
DispatchAll(tr, kind, eew, h, c) ==
    IF c > NumClients THEN tr
    ELSE DispatchAll(Append(tr, Ev(kind, eew.id, eew.serial, h, c)), kind, eew, h, c + 1)

\* TTLCache.expire(): drop every entry whose expiry instant has been reached
Expire(al, t) ==
    [i \in {j \in DOMAIN al : t < al[j].expires} |-> al[i]]

\* a time-to-live counted from the bulletin's publish time
ExpiresAtPublish(data, t) == data.time + TTL

\* the instant at which an entry written at time t expires
ExpiresAt(data, t) == t + TTL

\* TTLCache.__setitem__: store the value, (re)start its time-to-live
SetItem(al, id, entry) ==
    [i \in (DOMAIN al) \cup {id} |-> IF i = id THEN entry ELSE al[i]]

\* EEW.from_dict + the table entry written for it
Entry(data, t, h) ==
    [serial |-> data.serial, time |-> data.time, at |-> t,
     expires |-> ExpiresAt(data, t), calc |-> h]

\* Task.cancel(): a request; a finished task is left as it is
CancelCalc(cs, h) ==
    [cs EXCEPT ![h].st = IF @ = "running" THEN "cancelled" ELSE @]

\* EarthquakeData.calc_all_data_in_executor: a new running computation
StartCalc(cs, data) ==
    Append(cs, [id |-> data.id, serial |-> data.serial, st |-> "running"])

\* --------------------------------------------------------------- handlers
\* Client.new_alert
new_alert(st, data, t) ==
    LET h  == Len(st.calcs) + 1
        al == SetItem(st.alerts, data.id, Entry(data, t, h))
        cs == StartCalc(st.calcs, data)
        tr == Append(st.trace, Ev("calc", data.id, data.serial, h, 0))
    IN  [alerts |-> al, calcs |-> cs,
         trace |-> DispatchAll(tr, "send", data, h, 1)]

\* update_alert without the cancellation of the replaced computation
update_alert_no_cancel(st, data, t) ==
    LET h  == Len(st.calcs) + 1
        al == SetItem(st.alerts, data.id, Entry(data, t, h))
        cs == StartCalc(st.calcs, data)
        tr == Append(st.trace, Ev("calc", data.id, data.serial, h, 0))
    IN  [alerts |-> al, calcs |-> cs,
         trace |-> DispatchAll(tr, "update", data, h, 1)]

\* Client.update_alert
update_alert(st, data, t) ==
    LET h   == Len(st.calcs) + 1
        old == IF data.id \in DOMAIN st.alerts /\ t < st.alerts[data.id].expires
               THEN st.alerts[data.id].calc ELSE 0
        al  == SetItem(st.alerts, data.id, Entry(data, t, h))
        cs1 == IF old # 0 THEN CancelCalc(st.calcs, old) ELSE st.calcs
        tr1 == IF old # 0
               THEN Append(st.trace, Ev("cancel", data.id, st.calcs[old].serial, old, 0))
               ELSE st.trace
        cs2 == StartCalc(cs1, data)
        tr2 == Append(tr1, Ev("calc", data.id, data.serial, h, 0))
    IN  [alerts |-> al, calcs |-> cs2,
         trace |-> DispatchAll(tr2, "update", data, h, 1)]

\* the provider filter switched off
FilteredNever(src, data) == FALSE

\* the provider filter at the head of on_eew
Filtered(src, data) == ~src.none /\ data.author \notin src.list

\* the transition a bulletin stands for, given the filter and the table after
\* expire(): what on_eew is to decide (recorded in last.cls for the properties)
Classify(src, al, data) ==
    IF Filtered(src, data) THEN "filtered"
    ELSE IF data.id \notin DOMAIN al THEN "new"
    ELSE IF data.serial > al[data.id].serial THEN "update"
    ELSE IF data.serial = al[data.id].serial THEN "duplicate"
    ELSE "stale"

\* on_eew that also takes an equal serial for an update
on_eew_accepts_equal(src, st, data, t) ==
    IF Filtered(src, data) THEN st
    ELSE LET st1 == [st EXCEPT !.alerts = Expire(st.alerts, t)]
         IN  IF data.id \notin DOMAIN st1.alerts THEN new_alert(st1, data, t)
             ELSE IF data.serial >= st1.alerts[data.id].serial THEN update_alert(st1, data, t)
             ELSE st1

\* Client.on_eew
on_eew(src, st, data, t) ==
    IF Filtered(src, data) THEN st
    ELSE LET st1 == [st EXCEPT !.alerts = Expire(st.alerts, t)]
         IN  IF data.id \notin DOMAIN st1.alerts THEN new_alert(st1, data, t)
             ELSE IF data.serial > st1.alerts[data.id].serial THEN update_alert(st1, data, t)
             ELSE st1

RECURSIVE ForEach(_, _, _, _)
\* for d in data: await self.on_eew(d)
ForEach(src, st, snapshot, t) ==
    IF snapshot = <<>> THEN st
    ELSE ForEach(src, on_eew(src, st, Head(snapshot), t), Tail(snapshot), t)

RECURSIVE ClassifyAll(_, _, _, _)
\* the branches taken for the bulletins of a snapshot, in order
ClassifyAll(src, st, snapshot, t) ==
    IF snapshot = <<>> THEN <<>>
    ELSE <<Classify(src, Expire(st.alerts, t), Head(snapshot))>>
         \o ClassifyAll(src, on_eew(src, st, Head(snapshot), t), Tail(snapshot), t)

State == [alerts |-> alerts, calcs |-> calcs, trace |-> trace]

\* the upstream: each alert comes from one provider, and revision s of an
\* alert is published one tick after revision s - 1
AuthorOf(id) == IF id = "A" THEN "cwa" ELSE "trem"
PublishTime(serial) == (serial - 1) * TickSeconds

\* the bulletins that may be delivered at time t (on time or late)
Bulletins(t) ==
    {Bulletin(id, s, AuthorOf(id), PublishTime(s)) :
        id \in Ids, s \in {x \in Serials : PublishTime(x) <= t}}

\* a snapshot of /eq/eew lists each active alert once
Snapshots(t) ==
    {sn \in UNION {[1..n -> Bulletins(t)] : n \in 0..MaxSnapshot} :
        \A i, j \in DOMAIN sn : i # j => sn[i].id # sn[j].id}

RECURSIVE IdsOf(_)
IdsOf(snapshot) ==
    IF snapshot = <<>> THEN <<>> ELSE <<Head(snapshot).id>> \o IdsOf(Tail(snapshot))

NoLast(op) == [op |-> op, ids |-> <<>>, cls |-> <<>>]

\* ---------------------------------------------------------------- actions
IngestInit ==
    /\ now = 0
    /\ eew_source \in {SourceFilter(TRUE, {}), SourceFilter(FALSE, {"cwa"})}
    /\ alerts = <<>>
    /\ calcs = <<>>
    /\ trace = <<>>
    /\ last = NoLast("init")

\* the clock advances between handlers
Tick ==
    /\ now < MaxTime
    /\ now' = now + TickSeconds
    /\ last' = NoLast("tick")
    /\ UNCHANGED <<eew_source, alerts, calcs, trace>>
    /\ UNCHANGED <<wsVars, ioVars>>

\* a WebSocket eew event: Client._emit creates the task that runs on_eew(data)
WsEew(data) ==
    /\ Len(calcs) < MaxCalcs
    /\ LET st == on_eew(eew_source, State, data, now)
       IN  /\ alerts' = st.alerts
           /\ calcs' = st.calcs
           /\ trace' = st.trace
    /\ last' = [op |-> "on_eew", ids |-> <<data.id>>,
                cls |-> ClassifyAll(eew_source, State, <<data>>, now)]
    /\ UNCHANGED <<now, eew_source>>
    /\ UNCHANGED <<wsVars, ioVars>>

\* Client.get_eew with a fetch that succeeds
GetEew(snapshot) ==
    /\ Len(calcs) + Len(snapshot) <= MaxCalcs
    /\ LET st == ForEach(eew_source, State, snapshot, now)
       IN  /\ alerts' = st.alerts
           /\ calcs' = st.calcs
           /\ trace' = st.trace
    /\ last' = [op |-> "get_eew", ids |-> IdsOf(snapshot),
                cls |-> ClassifyAll(eew_source, State, snapshot, now)]
    /\ UNCHANGED <<now, eew_source>>
    /\ UNCHANGED <<wsVars, ioVars>>

\* Client.get_eew with a fetch that raises: logged, nothing else
GetEewFail ==
    /\ last' = NoLast("get_eew_fail")
    /\ UNCHANGED <<now, eew_source, alerts, calcs, trace>>
    /\ UNCHANGED <<wsVars, ioVars>>

\* on_eew hands the bulletin to EEW.from_dict (first statement of new_alert and
\* of update_alert) only on the two branches that handle it
Decoded(src, al, data) == Classify(src, al, data) \in {"new", "update"}

\* a handler that decodes the bulletin only after it has stored it
raise_after_store(st, data, t) ==
    [st EXCEPT !.alerts = SetItem(st.alerts, data.id, Entry(data, t, 0))]

\* new_alert and update_alert when EEW.from_dict raises: it is their first
\* statement (lines 71 and 93), nothing has been written or started yet
raise_in_from_dict(st, data, t) == st

RECURSIVE ForEachUntilRaise(_, _, _, _, _)
\* for d in data: await self.on_eew(d), where the bulletin at position bad has
\* a body that EEW.from_dict cannot decode: the exception leaves on_eew after
\* expire() and leaves the loop of get_eew, which has no handler around it
ForEachUntilRaise(src, st, snapshot, bad, t) ==
    IF snapshot = <<>> THEN st
    ELSE IF bad = 1 /\ Decoded(src, Expire(st.alerts, t), Head(snapshot))
         THEN raise_in_from_dict([st EXCEPT !.alerts = Expire(st.alerts, t)],
                                 Head(snapshot), t)
         ELSE ForEachUntilRaise(src, on_eew(src, st, Head(snapshot), t),
                                Tail(snapshot), bad - 1, t)

\* Client.get_eew with a snapshot whose bulletin at position bad is undecodable
GetEewUndecodable(snapshot, bad) ==
    /\ Len(calcs) + Len(snapshot) <= MaxCalcs
    /\ LET st == ForEachUntilRaise(eew_source, State, snapshot, bad, now)
       IN  /\ alerts' = st.alerts
           /\ calcs' = st.calcs
           /\ trace' = st.trace
    /\ last' = [op |-> "get_eew_bad", ids |-> IdsOf(snapshot),
                cls |-> [p \in DOMAIN snapshot |->
                            IF p = bad THEN "undecodable" ELSE "decodable"]]
    /\ UNCHANGED <<now, eew_source>>
    /\ UNCHANGED <<wsVars, ioVars>>

\* a running computation completes in the executor
CalcFinish(h) ==
    /\ calcs[h].st = "running"
    /\ calcs' = [calcs EXCEPT ![h].st = "done"]
    /\ last' = NoLast("calc_done")
    /\ UNCHANGED <<now, eew_source, alerts, trace>>
    /\ UNCHANGED <<wsVars, ioVars>>

\* HTTPClient.__init__: no request in progress, node index i in use
ReqIdle(i) ==
    [st |-> "idle", caller |-> "none", retry |-> 0, first |-> 0, node |-> i,
     targets |-> <<>>]

\* _get_eew_loop before its first turn
PollIdle == [task |-> "none", loop |-> "running", failures |-> 0, recovered |-> 0]

\* ---------------------------------------------------------------- node pool
\* float("inf"): greater than every latency measured
Inf == 1000

\* the API nodes, by their position in HTTPClient.API_NODES
ApiNodes == 1..6

\* what a node does with the probe request: status 0 stands for an exception
\* (no response), elapsed is the time until the response
ProbeOutcomes ==
    {[status |-> 200, elapsed |-> 2], [status |-> 304, elapsed |-> 1],
     [status |-> 503, elapsed |-> 1], [status |-> 0, elapsed |-> 1]}

\* HTTPClient._test_latency: the elapsed time when response.ok (status below
\* 400), infinity otherwise and on any exception
_test_latency(o) ==
    IF o.status = 0 THEN Inf
    ELSE IF o.status < 400 THEN o.elapsed
    ELSE Inf

RECURSIVE Insert(_, _)
\* x placed after every element of the sorted list that is not greater
Insert(sorted, x) ==
    IF sorted = <<>> THEN <<x>>
    ELSE IF x.lat < Head(sorted).lat THEN <<x>> \o sorted
    ELSE <<Head(sorted)>> \o Insert(Tail(sorted), x)

RECURSIVE SortByLatency(_, _)
\* list.sort(key=lambda x: x[1]): ascending, stable
SortByLatency(sorted, rest) ==
    IF rest = <<>> THEN sorted
    ELSE SortByLatency(Insert(sorted, Head(rest)), Tail(rest))

\* HTTPClient.__init__: every node with latency infinity, in the order of
\* API_NODES; the first node selected. url 0 stands for a URL outside the list
PoolInit ==
    [list |-> [i \in ApiNodes |-> [node |-> i, lat |-> Inf, status |-> 0]],
     idx |-> 0, url |-> 1, probed |-> FALSE]

\* HTTPClient.test_api_latencies with the given answers of the nodes: the list
\* is rebuilt from API_NODES and sorted; index and base URL are left alone
test_api_latencies(pl, answers) ==
    [pl EXCEPT !.list = SortByLatency(<<>>,
                            [i \in ApiNodes |->
                                [node |-> i, lat |-> _test_latency(answers[i]),
                                 status |-> answers[i].status]]),
               !.probed = TRUE]

\* HTTPClient.switch_api_node(type_or_url): mode is "next", "fastest", "random"
\* (pick is the index drawn) or "url" for any other argument, the URL given
switch_api_node(pl, mode, url, pick) ==
    LET n == Len(pl.list)
        idx == CASE mode = "next" -> (pl.idx + 1) % n
                 [] mode = "fastest" -> 0
                 [] mode = "random" -> pick
                 [] OTHER -> -1
    IN  IF idx = -1
        THEN [pl EXCEPT !.url = url]
        ELSE [pl EXCEPT !.url = pl.list[idx + 1].node, !.idx = idx]

\* a latency probe of the API nodes
Probe(answers) ==
    /\ ~pool.probed
    /\ pool' = test_api_latencies(pool, answers)
    /\ UNCHANGED <<wave, intensity, loader, hs>>
    /\ UNCHANGED <<ingestVars, wsVars, outcome, req, poll, extVars>>

\* switch_api_node("next"), ("fastest"), ("random")
SwitchMode(mode) ==
    /\ \E pick \in 0..(Len(pool.list) - 1) :
          /\ mode # "random" => pick = 0
          /\ pool' = switch_api_node(pool, mode, 0, pick)
    /\ UNCHANGED <<wave, intensity, loader, hs>>
    /\ UNCHANGED <<ingestVars, wsVars, outcome, req, poll, extVars>>

\* switch_api_node(url)
SwitchUrl(url) ==
    /\ pool' = switch_api_node(pool, "url", url, 0)
    /\ UNCHANGED <<wave, intensity, loader, hs>>
    /\ UNCHANGED <<ingestVars, wsVars, outcome, req, poll, extVars>>

\* ------------------------------------------------------------- wave models
\* the threads that call get_wave_model, and the depths they ask for: 10 is
\* one of the depths filled at import, 15 and 25 are not
Threads == 1..NumThreads
WaveDepths == {10, 15, 25}

\* a WaveModel object: the depth it was built for and the serial number of
\* the build that made it (0 for the builds done at import)
NoModel == [depth |-> 0, n |-> 0]

\* "pre fill wave model cache": range(10, 101, 10)
Prefilled(d) == d \in 10..100 /\ d % 10 = 0

\* a thread outside get_wave_model
ThreadIdle == [pc |-> "idle", depth |-> 0, model |-> NoModel]

\* the module after import: the cache holds the prefilled depths, no thread
\* is inside get_wave_model; builds counts the builds started, writes the
\* stores per depth, got the models returned per depth, first the model of
\* the build that completed first
WaveInit ==
    [cache  |-> [d \in WaveDepths |->
                    IF Prefilled(d) THEN [depth |-> d, n |-> 0] ELSE NoModel],
     th     |-> [t \in Threads |-> ThreadIdle],
     builds |-> 0,
     writes |-> [d \in WaveDepths |-> 0],
     got    |-> [d \in WaveDepths |-> {}],
     first  |-> [d \in WaveDepths |-> NoModel]]

\* get_wave_model, lines 108-110: the lookup; a hit returns the cached model
get_wave_model(t, depth) ==
    /\ wave.th[t].pc = "idle"
    /\ LET cache == wave.cache[depth]
       IN  IF cache # NoModel
           THEN wave' = [wave EXCEPT !.got[depth] = @ \cup {cache}]
           ELSE /\ wave.builds < MaxBuilds
                /\ wave' = [wave EXCEPT
                       !.th[t] = [pc |-> "build", depth |-> depth, model |-> NoModel]]
    /\ UNCHANGED <<pool, intensity, loader, hs>>
    /\ UNCHANGED <<ingestVars, wsVars, outcome, req, poll, extVars>>

\* get_wave_model, lines 112-123: the travel times are computed and a new
\* WaveModel is made of them
BuildModel(t) ==
    /\ wave.th[t].pc = "build"
    /\ wave' = [wave EXCEPT
           !.builds = @ + 1,
           !.th[t].pc = "store",
           !.th[t].model = [depth |-> wave.th[t].depth, n |-> wave.builds + 1],
           !.first[wave.th[t].depth] =
               IF @ = NoModel
               THEN [depth |-> wave.th[t].depth, n |-> wave.builds + 1]
               ELSE @]
    /\ UNCHANGED <<pool, intensity, loader, hs>>
    /\ UNCHANGED <<ingestVars, wsVars, outcome, req, poll, extVars>>

\* get_wave_model, lines 124-125: the model is stored, whatever the cache
\* holds by now, and returned
StoreModel(t) ==
    /\ wave.th[t].pc = "store"
    /\ LET depth == wave.th[t].depth
           model == wave.th[t].model
       IN  wave' = [wave EXCEPT
               !.cache[depth] = model,
               !.writes[depth] = @ + 1,
               !.got[depth] = @ \cup {model},
               !.th[t] = ThreadIdle]
    /\ UNCHANGED <<pool, intensity, loader, hs>>
    /\ UNCHANGED <<ingestVars, wsVars, outcome, req, poll, extVars>>

\* ------------------------------------------------------ notifier loading
\* what an entry of the scanned directory is, by the first thing that stops
\* its registration:
\*   "dunder"          its name starts with "__"
\*   "other"           neither a .py file nor a directory
\*   "not_found"       the import raises ModuleNotFoundError
\*   "import_raises"   the import raises another Exception
\*   "no_register"     the module has no register function
\*   "no_config"       the config has no section of the module's namespace
\*   "register_raises" register raises an Exception
\*   "not_notifier"    register returns no BaseNotificationClient
\*   "ok"              none of these
EntryKinds ==
    {"dunder", "other", "not_found", "import_raises", "no_register",
     "no_config", "register_raises", "not_notifier", "ok"}

RECURSIVE SeqsUpTo(_, _)
\* the sequences of at most n elements of S
SeqsUpTo(S, n) ==
    IF n = 0 THEN {<<>>}
    ELSE LET shorter == SeqsUpTo(S, n - 1)
         IN  shorter \cup {Append(q, x) : q \in {r \in shorter : Len(r) = n - 1}, x \in S}

\* the directories that are scanned
Directories == SeqsUpTo(EntryKinds, MaxEntries)

\* the entries whose handling raises inside the try of load_notification_client
Raises(kind) == kind \in {"not_found", "import_raises", "register_raises"}

\* a variant that catches nothing but ModuleNotFoundError
CaughtImportOnly(kind) == kind = "not_found"

\* load_notification_client: "except ModuleNotFoundError" and "except
\* Exception" catch whatever the import, the config lookup, or register raise
Caught(kind) == TRUE

\* Client.__init__: no notifier, nothing scanned
LoaderIdle == [dir |-> <<>>, notification_client |-> <<>>, scanned |-> FALSE]

\* load_notification_client for entry i of the directory: the notifier is
\* appended when nothing stopped the registration
load_notification_client(clients, dir, i) ==
    IF dir[i] = "ok" THEN Append(clients, i) ELSE clients

RECURSIVE ScanFrom(_, _, _)
\* the for loop of load_notification_clients from entry i on: an exception
\* that load_notification_client does not catch ends the scan
ScanFrom(clients, dir, i) ==
    IF i > Len(dir) THEN clients
    ELSE IF dir[i] \in {"dunder", "other"} THEN ScanFrom(clients, dir, i + 1)
    ELSE IF Raises(dir[i]) /\ ~Caught(dir[i]) THEN clients
    ELSE ScanFrom(load_notification_client(clients, dir, i), dir, i + 1)

\* Client.load_notification_clients(path), called once by main()
load_notification_clients(dir) ==
    /\ ~loader.scanned
    /\ loader' = [dir |-> dir,
                  notification_client |-> ScanFrom(loader.notification_client, dir, 1),
                  scanned |-> TRUE]
    /\ UNCHANGED <<pool, wave, intensity, hs>>
    /\ UNCHANGED <<ingestVars, wsVars, outcome, req, poll, extVars>>

\* ------------------------------------------------------------- handshake
\* asyncio.wait_for(self.wait_for_verify(), timeout=60)
VerifyTimeout == 60

\* the time between two frames of the handshake, in seconds
FrameGaps == {0, 30}

\* the values of data["list"] in an info frame of code 200
ServiceLists == {{"websocket.eew"}, {"websocket.eew", "websocket.trem.eew"}}

\* the codes of the info frames; 0 stands for an info frame without a code
InfoCodes == {200, 400, 401, 403, 429, 503, 0}

\* what receive() returns during the handshake: a text frame whose JSON is an
\* info frame, a text frame of another type, a text frame that is no JSON,
\* and the frames that are no text: close, closing, closed, error, and ping
\* for the types that receive_and_check does not name
Frames ==
    {[kind |-> "text", type |-> "info", code |-> 200, list |-> l] : l \in ServiceLists}
    \cup {[kind |-> "text", type |-> "info", code |-> c, list |-> {}] : c \in InfoCodes \ {200}}
    \cup {[kind |-> "text", type |-> t, code |-> 0, list |-> {}] :
              t \in {"ntp", "data", "verify", "undecodable"}}
    \cup {[kind |-> k, type |-> "", code |-> 0, list |-> {}] :
              k \in {"close", "closing", "closed", "error", "ping"}}

\* a variant of receive_and_check that hands every frame to its caller
receive_and_check_all(f) == "msg"

\* ExpTechWebSocket.receive_and_check: "msg" for a frame it returns, and the
\* exception it raises for the others
receive_and_check(f) ==
    IF f.kind = "text" THEN "msg"
    ELSE IF f.kind = "error" THEN "WebSocketException"
    ELSE IF f.kind \in {"closed", "closing", "close"} THEN "WebSocketClosure"
    ELSE "WebSocketException"

\* one turn of the loop of wait_for_verify on frame f: the state the
\* handshake is left in ("waiting" when the loop goes on to the next frame)
wait_for_verify(f) ==
    IF receive_and_check(f) # "msg" THEN receive_and_check(f)
    ELSE IF f.kind # "text" THEN "waiting"
    ELSE IF f.type = "undecodable" THEN "JSONDecodeError"
    ELSE IF f.type # "info" THEN "waiting"
    ELSE IF f.code = 200 THEN "subscribed"
    ELSE IF f.code = 400 THEN "WebSocketReconnect"
    ELSE IF f.code = 401 THEN "AuthorizationFailed"
    ELSE IF f.code = 403 THEN "AuthorizationFailed"
    ELSE IF f.code = 429 THEN "WebSocketReconnect"
    ELSE "waiting"

\* a socket on which no subscribe message has been sent
HsIdle ==
    [st |-> "idle", seen |-> <<>>, subscribed_services |-> {}, reopen |-> FALSE,
     elapsed |-> 0]

\* verify(): start() sends the subscribe message and the wait begins
StartVerify ==
    /\ hs.st = "idle"
    /\ hs' = [hs EXCEPT !.st = "waiting"]
    /\ UNCHANGED <<pool, wave, intensity, loader>>
    /\ UNCHANGED <<ingestVars, wsVars, outcome, req, poll, extVars>>

\* frame f arrives dt seconds after the previous one, before the timeout;
\* verify() stores data["list"] when wait_for_verify returns
VerifyFrame(f, dt) ==
    /\ hs.st = "waiting"
    /\ Len(hs.seen) < MaxFrames
    /\ hs.elapsed + dt < VerifyTimeout
    /\ LET st == wait_for_verify(f)
       IN  hs' = [hs EXCEPT
               !.st = st,
               !.seen = Append(@, f),
               !.elapsed = @ + dt,
               !.subscribed_services = IF st = "subscribed" THEN f.list ELSE @,
               !.reopen = (st = "WebSocketReconnect")]
    /\ UNCHANGED <<pool, wave, intensity, loader>>
    /\ UNCHANGED <<ingestVars, wsVars, outcome, req, poll, extVars>>

\* no frame ended the wait within the 60 seconds: wait_for cancels
\* wait_for_verify and raises TimeoutError
VerifyTimesOut ==
    /\ hs.st = "waiting"
    /\ hs' = [hs EXCEPT !.st = "TimeoutError", !.elapsed = VerifyTimeout]
    /\ UNCHANGED <<pool, wave, intensity, loader>>
    /\ UNCHANGED <<ingestVars, wsVars, outcome, req, poll, extVars>>

\* --------------------------------------------------------------- intensity
\* INTENSITY_DISPLAY
INTENSITY_DISPLAY ==
    [b \in 0..9 |-> CASE b = 5 -> "5-" [] b = 6 -> "5+" [] b = 7 -> "6-"
                      [] b = 8 -> "6+" [] b = 9 -> "7" [] OTHER -> ToString(b)]

\* Python's round() of x hundredths: to the nearest integer, a tie to the
\* even one
round(x) ==
    LET q == x \div 100
        r == x % 100
    IN  IF r < 50 THEN q
        ELSE IF r > 50 THEN q + 1
        ELSE IF q % 2 = 0 THEN q ELSE q + 1

\* round_intensity without its first branch
round_intensity_unclamped(x) ==
    IF x < 450 THEN round(x)
    ELSE IF x < 500 THEN 5
    ELSE IF x < 550 THEN 6
    ELSE IF x < 600 THEN 7
    ELSE IF x < 650 THEN 8
    ELSE 9

\* round_intensity, on x hundredths
round_intensity(x) ==
    IF x < 0 THEN 0
    ELSE IF x < 450 THEN round(x)
    ELSE IF x < 500 THEN 5
    ELSE IF x < 550 THEN 6
    ELSE IF x < 600 THEN 7
    ELSE IF x < 650 THEN 8
    ELSE 9

\* no Intensity built yet
IntensityNone == [value |-> 0, bucket |-> 0, display |-> "", built |-> FALSE]

\* Intensity.__init__(value): the lookup of the display string raises KeyError
\* for a key that INTENSITY_DISPLAY lacks
NewIntensity(x) ==
    /\ intensity' =
          LET b == round_intensity(x)
          IN  [value |-> x, bucket |-> b,
               display |-> IF b \in DOMAIN INTENSITY_DISPLAY
                           THEN INTENSITY_DISPLAY[b] ELSE "KeyError",
               built |-> TRUE]
    /\ UNCHANGED <<pool, wave, loader, hs>>
    /\ UNCHANGED <<ingestVars, wsVars, outcome, req, poll, extVars>>

\* ------------------------------------------------- the Discord notifier
\* the alert ids and origin times (seconds) of the bulletins handed to the
\* notifier, and the number of EEWMessages objects it creates
AlertIds == {1, 2}
BotOrigins == {0, 1}
MaxSends == 2
\* the clock runs from 0 to MaxClock seconds
MaxClock == 124

\* EEWMessages.__init__: _lift_time = eew.earthquake.time.timestamp() + 120
LiftAfter == 120

\* an id that self.alerts does not hold
Untracked == [tracked |-> FALSE, origin |-> 0, _lift_time |-> 0]

\* EEWMessages(bot, eew, messages): _lift_time is computed here and nowhere else
EEWMessages(origin) ==
    [tracked |-> TRUE, origin |-> origin, _lift_time |-> origin + LiftAfter]

\* EEWMessages.update_eew_data(eew): self.eew = eew, the embeds are rebuilt,
\* _lift_time stays the one of the first bulletin
update_eew_data(m, origin) ==
    [m EXCEPT !.origin = origin]

\* DiscordNotification.__init__: no alert, the loop not started. loop is
\* "idle" (no task, or a finished one), "running", or "stopping": stop() asks
\* the task to end after the sleep that follows the current iteration, and
\* is_running() stays true until the task is done. ticked tells that the
\* iteration of the current second has run; sends and lifts count the
\* EEWMessages objects created and the EEWMessages.lift_eew calls per id
BotInit ==
    [alerts |-> [id \in AlertIds |-> Untracked], loop |-> "idle", ticked |-> TRUE,
     now |-> 0,
     sends |-> [id \in AlertIds |-> 0], lifts |-> [id \in AlertIds |-> 0]]

RECURSIVE SumOver(_, _)
SumOver(f, S) ==
    IF S = {} THEN 0
    ELSE LET x == CHOOSE y \in S : TRUE IN f[x] + SumOver(f, S \ {x})

\* Loop.is_running(): the task exists and is not done
is_running(b) == b.loop # "idle"

\* DiscordNotification.send_eew(eew) on the state b: the messages are sent,
\* the EEWMessages object is stored under eew.id, and the loop is started
\* unless is_running(); a started loop runs its first iteration at once
send_eew(b, id, origin) ==
    [b EXCEPT !.alerts[id] = EEWMessages(origin),
              !.sends[id] = @ + 1,
              !.loop = IF is_running(b) THEN @ ELSE "running",
              !.ticked = IF is_running(b) THEN @ ELSE FALSE]

\* DiscordNotification.lift_eew(eew) on the state b: alerts.pop(eew.id, None),
\* and EEWMessages.lift_eew() when the id was there
lift_eew(b, id) ==
    IF b.alerts[id].tracked
    THEN [b EXCEPT !.alerts[id] = Untracked, !.lifts[id] = @ + 1]
    ELSE b

\* the ids whose lift the iteration at b.now asks for: now_time > m._lift_time
Overdue(b) == {id \in AlertIds : b.alerts[id].tracked /\ b.now > b.alerts[id]._lift_time}

RECURSIVE LiftAll(_, _)
LiftAll(b, S) ==
    IF S = {} THEN b
    ELSE LET id == CHOOSE x \in S : TRUE IN LiftAll(lift_eew(b, id), S \ {id})

\* the core hands a new alert to the notifier
SendEew(id, origin) ==
    /\ ~bot.alerts[id].tracked
    /\ SumOver(bot.sends, AlertIds) < MaxSends
    /\ bot' = send_eew(bot, id, origin)
    /\ UNCHANGED <<sock, quake>>
    /\ UNCHANGED <<ingestVars, wsVars, outcome, req, poll, libVars>>

\* DiscordNotification.update_eew(eew): send_eew when the id is unknown, else
\* EEWMessages.update_eew_data
UpdateEew(id, origin) ==
    /\ bot.alerts[id].tracked \/ SumOver(bot.sends, AlertIds) < MaxSends
    /\ bot' = IF bot.alerts[id].tracked
              THEN [bot EXCEPT !.alerts[id] = update_eew_data(@, origin)]
              ELSE send_eew(bot, id, origin)
    /\ UNCHANGED <<sock, quake>>
    /\ UNCHANGED <<ingestVars, wsVars, outcome, req, poll, libVars>>

\* the core dispatches lift_eew for an id, tracked or not
LiftEew(id) ==
    /\ bot' = lift_eew(bot, id)
    /\ UNCHANGED <<sock, quake>>
    /\ UNCHANGED <<ingestVars, wsVars, outcome, req, poll, libVars>>

\* update_eew_messages_loop, one iteration: with no alert it calls stop() and
\* returns; else it creates a lift_eew task for every alert past its
\* _lift_time and an edit task for the others. The tasks run before the next
\* iteration, a second later; edit() leaves alerts alone
LoopIteration ==
    /\ bot.loop = "running" /\ ~bot.ticked
    /\ bot' = IF \A id \in AlertIds : ~bot.alerts[id].tracked
              THEN [bot EXCEPT !.loop = "stopping", !.ticked = TRUE]
              ELSE [LiftAll(bot, Overdue(bot)) EXCEPT !.ticked = TRUE]
    /\ UNCHANGED <<sock, quake>>
    /\ UNCHANGED <<ingestVars, wsVars, outcome, req, poll, libVars>>

\* the sleep after the iteration that called stop() is over: the loop task ends
LoopExit ==
    /\ bot.loop = "stopping" /\ ~bot.ticked
    /\ bot' = [bot EXCEPT !.loop = "idle", !.ticked = TRUE]
    /\ UNCHANGED <<sock, quake>>
    /\ UNCHANGED <<ingestVars, wsVars, outcome, req, poll, libVars>>

\* a second passes, once the loop task (if there is one) has had its turn
Second ==
    /\ bot.now < MaxClock
    /\ bot.loop = "idle" \/ bot.ticked
    /\ bot' = [bot EXCEPT !.now = @ + 1, !.ticked = FALSE]
    /\ UNCHANGED <<sock, quake>>
    /\ UNCHANGED <<ingestVars, wsVars, outcome, req, poll, libVars>>

\* ------------------------------------------------ frames and listeners
\* the number of frames read from the socket
MaxRead == 3

\* the keys of event_handlers: a str, or a member of the Enum WebSocketEvent.
\* WebSocketEvent derives from Enum alone, so a member neither equals nor
\* hashes as its value
StrKey(v) == [cls |-> "str", value |-> v]
Member(v) == [cls |-> "WebSocketEvent", value |-> v]
NoEvent == [cls |-> "none", value |-> ""]

\* the outer "time" of a data frame and the inner types of its payload ("" for
\* a payload without a type)
FrameTimes == {1, 2}
DataTypes == {"eew", "rts", ""}

\* the text frames read once subscribed: data frames, info frames of code 200
\* and 503, verify and ntp. inner_time is the "time" the payload came with
SockFrames ==
    {[kind |-> "text", type |-> "data", code |-> 0, list |-> {}, inner |-> t,
      time |-> tm, inner_time |-> 0] : t \in DataTypes, tm \in FrameTimes}
    \cup {[kind |-> "text", type |-> "info", code |-> c, list |-> {}, inner |-> "",
           time |-> 0, inner_time |-> 0] : c \in {200, 503}}
    \cup {[kind |-> "text", type |-> t, code |-> 0, list |-> {}, inner |-> "",
           time |-> 0, inner_time |-> 0] : t \in {"verify", "ntp"}}

\* Client.start has run: add_listener(WebSocketEvent.EEW.value, self.on_eew)
\* put on_eew under the str "eew". mode is "subscribed" while pool_event reads
\* the frames and "reverify" while a verify() called by _handle_json reads
\* them; log keeps, for every frame read, who read it, the event and payload
\* time given to _emit and the number of on_eew tasks created
SockInit ==
    [event_handlers |-> {StrKey("eew")}, mode |-> "subscribed", log |-> <<>>]

\* Client._emit(event, *args): a task per handler in event_handlers[event]
_emit(sk, event) == IF event \in sk.event_handlers THEN 1 ELSE 0

\* what one frame read became
Read(f, by, event, tm, n) ==
    [frame |-> f, by |-> by, emitted |-> event, time |-> tm, invoked |-> n]

\* ExpTechWebSocket._handle_json(data) on the state sk
_handle_json(sk, f) ==
    IF f.type = "verify"
    THEN [sk EXCEPT !.mode = "reverify",
                    !.log = Append(@, Read(f, "pool_event", NoEvent, 0, 0))]
    ELSE IF f.type = "info"
    THEN IF f.code = 503
         THEN [sk EXCEPT !.mode = "reverify",
                         !.log = Append(@, Read(f, "pool_event", NoEvent, 0, 0))]
         ELSE [sk EXCEPT !.log = Append(@, Read(f, "pool_event", Member("info"), 0,
                                                _emit(sk, Member("info"))))]
    ELSE IF f.type = "data"
    THEN IF f.inner # ""
         THEN [sk EXCEPT !.log = Append(@, Read(f, "pool_event", Member(f.inner), f.time,
                                                _emit(sk, Member(f.inner))))]
         ELSE [sk EXCEPT !.log = Append(@, Read(f, "pool_event", NoEvent, f.time, 0))]
    ELSE IF f.type = "ntp"
    THEN [sk EXCEPT !.log = Append(@, Read(f, "pool_event", Member("ntp"), 0,
                                           _emit(sk, Member("ntp"))))]
    ELSE [sk EXCEPT !.log = Append(@, Read(f, "pool_event", NoEvent, 0, 0))]

\* pool_event: receive_and_check, then _handle
PoolEvent(f) ==
    /\ sock.mode = "subscribed"
    /\ Len(sock.log) < MaxRead
    /\ receive_and_check(f) = "msg"
    /\ sock' = _handle_json(sock, f)
    /\ UNCHANGED <<bot, quake>>
    /\ UNCHANGED <<ingestVars, wsVars, outcome, req, poll, libVars>>

\* the verify() called by _handle_json reads the next frame: wait_for_verify
\* returns on an info frame of code 200 and goes on to the next frame after
\* any other frame of SockFrames
VerifyRead(f) ==
    /\ sock.mode = "reverify"
    /\ Len(sock.log) < MaxRead
    /\ sock' = [sock EXCEPT
           !.mode = IF wait_for_verify(f) = "subscribed" THEN "subscribed" ELSE @,
           !.log = Append(@, Read(f, "wait_for_verify", NoEvent, 0, 0))]
    /\ UNCHANGED <<bot, quake>>
    /\ UNCHANGED <<ingestVars, wsVars, outcome, req, poll, libVars>>

\* ------------------------------------------------- city maximum intensity
\* REGIONS and REGIONS_GROUP_BY_CITY cut down to three regions in two cities;
\* the lists keep the order of region.json
RegionCodes == {1, 2, 3}
REGIONS_GROUP_BY_CITY == [A |-> <<1, 2>>, B |-> <<3>>]
Cities == DOMAIN REGIONS_GROUP_BY_CITY

\* the float intensities _calculate_intensity gives for a region
FloatValues == {0, 1, 2}

\* a dict attribute that is None
NoDict == [none |-> TRUE, map |-> <<>>]
Dict(f) == [none |-> FALSE, map |-> f]

\* EarthquakeData.__init__: _expected_intensity = None, _city_max_intensity =
\* None. float is what the earthquake's location, magnitude and depth make of
\* every region; raised tells that the last call ended in a KeyError
NewEarthquakeData(float) ==
    [float |-> float, _expected_intensity |-> NoDict, _city_max_intensity |-> NoDict,
     raised |-> FALSE]
QuakeInit == NewEarthquakeData([r \in RegionCodes |-> 0])

\* RegionExpectedIntensity(region, Intensity(intensity), Distance(...))
RegionExpectedIntensity(q, code) == [code |-> code, _float_value |-> q.float[code]]

\* calculate_expected_intensity_and_travel_time(earthquake, regions):
\* for region in regions or REGIONS.values()
calculate_expected_intensity_and_travel_time(q, regions) ==
    [code \in (IF regions = {} THEN RegionCodes ELSE regions) |->
        RegionExpectedIntensity(q, code)]

\* EarthquakeData.calc_expected_intensity(regions), regions = {} for MISSING
calc_expected_intensity(q, regions) ==
    [q EXCEPT !._expected_intensity =
                  Dict(calculate_expected_intensity_and_travel_time(q, regions)),
              !.raised = FALSE]

\* max(entries, key=lambda x: x.intensity._float_value) over the entries of
\* the regions in codes: the first of the greatest
RECURSIVE MaxByFloat(_, _)
MaxByFloat(map, codes) ==
    IF Len(codes) = 1 THEN map[codes[1]]
    ELSE LET rest == MaxByFloat(map, Tail(codes))
         IN  IF map[codes[1]]._float_value >= rest._float_value
             THEN map[codes[1]] ELSE rest

\* the codes in the sequence codes
CodesOf(codes) == {codes[i] : i \in DOMAIN codes}

\* the dict comprehension of calc_city_max_intensity on the state e:
\* self._expected_intensity[region.code] raises KeyError for a region that
\* the map lacks, and _city_max_intensity is then left as it was
city_max_comprehension(e) ==
    IF \E c \in Cities : ~(CodesOf(REGIONS_GROUP_BY_CITY[c]) \subseteq
                               DOMAIN e._expected_intensity.map)
    THEN [e EXCEPT !.raised = TRUE]
    ELSE [e EXCEPT !._city_max_intensity =
              Dict([c \in Cities |->
                       MaxByFloat(e._expected_intensity.map, REGIONS_GROUP_BY_CITY[c])]),
                   !.raised = FALSE]

\* EarthquakeData.calc_city_max_intensity: the expected intensities are
\* computed when missing, and a _city_max_intensity already there is returned
\* as it is
calc_city_max_intensity(q) ==
    LET e == IF q._expected_intensity.none THEN calc_expected_intensity(q, {}) ELSE q
    IN  IF ~e._city_max_intensity.none THEN [e EXCEPT !.raised = FALSE]
        ELSE city_max_comprehension(e)

\* an EarthquakeData is built
NewQuake(float) ==
    /\ quake' = NewEarthquakeData(float)
    /\ UNCHANGED <<bot, sock>>
    /\ UNCHANGED <<ingestVars, wsVars, outcome, req, poll, libVars>>

\* calc_expected_intensity is called, for all regions ({}) or for some
CalcExpected(regions) ==
    /\ quake' = calc_expected_intensity(quake, regions)
    /\ UNCHANGED <<bot, sock>>
    /\ UNCHANGED <<ingestVars, wsVars, outcome, req, poll, libVars>>

\* calc_city_max_intensity is called
CalcCityMax ==
    /\ quake' = calc_city_max_intensity(quake)
    /\ UNCHANGED <<bot, sock>>
    /\ UNCHANGED <<ingestVars, wsVars, outcome, req, poll, libVars>>

\* ------------------------------------------- HTTP requests and HTTP mode
\* len(HTTPClient.API_NODES): api-1, api-2, lb-1 .. lb-4
NumApiNodes == 6

\* HTTPClient.switch_api_node("next")
NextApiNode(i) == (i + 1) % NumApiNodes

\* request(method, path, retry=r) entered by caller c: the first attempt is
\* about to be made against the current node
NewRequest(rq, r, c) ==
    [st |-> "attempt", caller |-> c, retry |-> r, first |-> r, node |-> rq.node,
     targets |-> <<>>]

\* the attempt succeeds: the response is returned, the node is kept
RequestReturned(rq) ==
    [rq EXCEPT !.st = "returned", !.targets = Append(@, rq.node)]

\* the attempt fails (lines 120-131): switch to the next node, then sleep 1 s
\* and call request again with retry - 1, or raise when retry is 0
RequestFailed(rq) ==
    [rq EXCEPT !.st = IF rq.retry > 0 THEN "sleep" ELSE "raised",
               !.retry = IF rq.retry > 0 THEN rq.retry - 1 ELSE 0,
               !.node = NextApiNode(rq.node),
               !.targets = Append(@, rq.node)]

\* the attempt fails with a ContentTypeError and the "await r.text()" of the
\* debug message (line 123) raises in its turn: the new exception leaves the
\* handler before switch_api_node and before the retry
RequestFailedInHandler(rq) ==
    [rq EXCEPT !.st = "raised", !.targets = Append(@, rq.node)]

\* a poller whose loop ends with the fetch that failed
StopAfterFailedFetch(pl) ==
    [pl EXCEPT !.task = "done", !.loop = "returned"]

\* get_eew logs the failure and returns (lines 205-207); its task is done and
\* the loop creates the next one on its next turn
AfterFailedFetch(pl) ==
    [pl EXCEPT !.task = "done", !.failures = @ + 1]

\* get_eew has handled the snapshot; its task is done
AfterFetch(pl) ==
    [pl EXCEPT !.task = "done", !.failures = 0, !.recovered = pl.failures]

\* request() called on its own, with any retry count
Request(r) ==
    /\ req.st \in {"idle", "returned", "raised"}
    /\ poll.task # "fetching"
    /\ req' = NewRequest(req, r, "direct")
    /\ UNCHANGED <<outcome, poll>>
    /\ UNCHANGED <<ingestVars, wsVars, libVars, extVars>>

\* _get_eew_loop in HTTP mode, one turn: the previous get_eew task is done (or
\* there is none), a new one is created and calls self._http.get("/eq/eew")
LoopTurn ==
    /\ pc = "http" /\ poll.loop = "running"
    /\ poll.task \in {"none", "done"}
    /\ req.st \in {"idle", "returned", "raised"}
    /\ poll' = [poll EXCEPT !.task = "fetching"]
    /\ req' = NewRequest(req, 0, "get_eew")
    /\ UNCHANGED outcome
    /\ UNCHANGED <<ingestVars, wsVars, libVars, extVars>>

\* the attempt of a request called on its own succeeds
RequestOk ==
    /\ req.st = "attempt" /\ req.caller = "direct"
    /\ req' = RequestReturned(req)
    /\ UNCHANGED <<outcome, poll>>
    /\ UNCHANGED <<ingestVars, wsVars, libVars, extVars>>

\* the fetch of get_eew succeeds: the snapshot is handled bulletin by bulletin
FetchOk(snapshot) ==
    /\ req.st = "attempt" /\ req.caller = "get_eew"
    /\ Len(calcs) + Len(snapshot) <= MaxCalcs
    /\ req' = RequestReturned(req)
    /\ LET st == ForEach(eew_source, State, snapshot, now)
       IN  /\ alerts' = st.alerts
           /\ calcs' = st.calcs
           /\ trace' = st.trace
    /\ last' = [op |-> "get_eew", ids |-> IdsOf(snapshot),
                cls |-> ClassifyAll(eew_source, State, snapshot, now)]
    /\ poll' = AfterFetch(poll)
    /\ UNCHANGED <<now, eew_source, outcome>>
    /\ UNCHANGED <<wsVars, libVars, extVars>>

\* what the end of a request means for the poller: a request of get_eew that
\* raised is a failed fetch
PollAfter(rq, pl) ==
    IF rq.caller = "get_eew" /\ rq.st = "raised" THEN AfterFailedFetch(pl) ELSE pl

\* the attempt fails: connection error, timeout, undecodable body
AttemptFail ==
    /\ req.st = "attempt"
    /\ req.caller = "get_eew" => poll.failures < MaxFailures
    /\ req' = RequestFailed(req)
    /\ poll' = PollAfter(req', poll)
    /\ UNCHANGED outcome
    /\ UNCHANGED <<ingestVars, wsVars, libVars, extVars>>

\* the attempt fails and so does the logging of the failure
AttemptFailInHandler ==
    /\ req.st = "attempt"
    /\ req.caller = "get_eew" => poll.failures < MaxFailures
    /\ req' = RequestFailedInHandler(req)
    /\ poll' = PollAfter(req', poll)
    /\ UNCHANGED outcome
    /\ UNCHANGED <<ingestVars, wsVars, libVars, extVars>>

\* asyncio.sleep(1) is over: the recursive call makes the next attempt
RetryWake ==
    /\ req.st = "sleep"
    /\ req' = [req EXCEPT !.st = "attempt"]
    /\ UNCHANGED <<outcome, poll>>
    /\ UNCHANGED <<ingestVars, wsVars, libVars, extVars>>

\* ---------------------------------------------------------- notifier tasks
\* the notifier tasks created and not yet run by the event loop
Pending(tr, out) ==
    {i \in DOMAIN tr : tr[i].client > 0 /\ i \notin DOMAIN out}

\* the calls awaited one after the other: a call that has not returned holds
\* up every call after it
RunnableAwaited(tr, out) ==
    IF \E i \in DOMAIN out : out[i] = "suspended" THEN {} ELSE Pending(tr, out)

\* loop.create_task: each call is a task of its own in the loop's ready
\* queue, whatever the other tasks do
Runnable(tr, out) == Pending(tr, out)

\* two tasks created by the same loop "for client in self.notification_client"
SameDispatch(tr, i, j) ==
    /\ tr[i].kind = tr[j].kind
    /\ tr[i].calc = tr[j].calc

\* the calls awaited one after the other: an exception leaves the loop, the
\* notifiers after the one that raised are not called
AbortedByAwaited(tr, i) ==
    {j \in DOMAIN tr : j > i /\ SameDispatch(tr, i, j)}

\* the tasks that are lost when task i raises: none, the exception stays in
\* the task
AbortedBy(tr, i) == {}

\* the ready queue is first in, first out
NextTask(tr, out) ==
    CHOOSE i \in Runnable(tr, out) : \A j \in Runnable(tr, out) : i <= j

\* the event loop runs task i, which ends as res
RunTask(i, res) ==
    /\ Runnable(trace, outcome) # {}
    /\ i = NextTask(trace, outcome)
    /\ LET lost == IF res = "raised" THEN AbortedBy(trace, i) \ DOMAIN outcome ELSE {}
       IN  outcome' = [j \in DOMAIN outcome \cup {i} \cup lost |->
                          IF j = i THEN res
                          ELSE IF j \in DOMAIN outcome THEN outcome[j]
                          ELSE "skipped"]
    /\ last' = NoLast("notifier")
    /\ UNCHANGED <<now, eew_source, alerts, calcs, trace>>
    /\ UNCHANGED <<wsVars, req, poll, libVars, extVars>>

\* client.send_eew / update_eew returns
TaskReturns(i) == RunTask(i, "returned")

\* the notifier calls that raised or never returned
Faults(out) == {j \in DOMAIN out : out[j] \in {"raised", "suspended"}}

\* client.send_eew / update_eew raises
TaskRaises(i) ==
    /\ Cardinality(Faults(outcome)) < MaxFaults
    /\ RunTask(i, "raised")

\* client.send_eew / update_eew awaits something that never comes
TaskSuspends(i) ==
    /\ Cardinality(Faults(outcome)) < MaxFaults
    /\ RunTask(i, "suspended")

IngestNext ==
    \/ Tick
    \/ \E data \in Bulletins(now) : WsEew(data)
    \/ \E snapshot \in Snapshots(now) : GetEew(snapshot)
    \/ GetEewFail
    \/ \E snapshot \in Snapshots(now) : \E bad \in DOMAIN snapshot :
          GetEewUndecodable(snapshot, bad)
    \/ \E h \in DOMAIN calcs : CalcFinish(h)


\* ======================================================================
\* The transport supervisor: Client.connect / ws_connect / _get_eew_loop
\* ======================================================================
\* len(HTTPClient.WS_NODES): lb-1 .. lb-4
NumWsNodes == 4
\* "max reconnect delay 10min" and the step of the delay
MaxDelay == 600
DelayStep == 10

\* the supervisor is suspended: the event loop runs the other tasks
Suspended ==
    \/ pc \in {"dial", "verify", "closing", "sleep", "http", "returned"}
    \/ pc = "recv" /\ ~buffered

\* a suspended supervisor is resumed only after the callbacks that were already
\* scheduled have run, so a requested cancellation has been delivered by then
CanResume == taskSt # "cancelling"

\* Task.cancel() on the reconnect poller (lines 173-174)
CancelTask(t) == IF t = "running" THEN "cancelling" ELSE t

\* "if not task or task.done(): task = create_task(self._get_eew_loop())"
EnsureTask(t) == IF t \in {"none", "done"} THEN "running" ELSE t

\* "if _reconnect_delay < 600: _reconnect_delay += 10"
NextDelay(d) == IF d < MaxDelay THEN d + DelayStep ELSE d

\* HTTPClient.switch_ws_node("next")
NextWsNode(i) == (i + 1) % NumWsNodes

\* the configuration left in place after an authorization failure
ConfigKept == TRUE

\* Client.websocket_config after an authorization failure (line 182)
ConfigAfterAuthFailure == FALSE

\* a handler of the verify frame that closes the socket to dial again
ResubscribeByReopen(w) == "closing"

\* _handle_json on a verify frame or an info 503: "await self.verify()" on the
\* socket that received the frame
Resubscribe(w) == "verify"

\* a reconnect handler that does not close the socket on reopen
AfterClosingLeftOpen(w) == "sleep"

\* "if e.reopen and self._ws and not self._ws.closed: await self._ws.close()"
AfterClosing(w) == IF w = "open" THEN "closing" ELSE "sleep"

\* connect() that takes the WebSocket path whatever the configuration
connect_always_ws(cfg) == "top"

\* Client.connect: the WebSocket supervisor with a config, else the HTTP loop
connect(cfg) == IF cfg THEN "top" ELSE "http"

WsInit ==
    /\ websocket_config \in BOOLEAN
    /\ pc = connect(websocket_config)
    /\ closed = FALSE
    /\ ws = "none"
    /\ ready = ~websocket_config
    /\ in_reconnect = FALSE
    /\ delay = 0
    /\ taskSt = "none"
    /\ buffered = FALSE
    /\ ws_node = 0
    /\ authFailed = FALSE
    /\ prevDelay = 0
    /\ closeRequested = FALSE
    /\ fetching = {}
    /\ cause = "none"
    /\ idle = 0
    /\ rejected = "none"
    /\ orphans = 0

\* lines 158-178: the socket is usable; stop the reconnect poller, reset the
\* delay and start reading
Resume ==
    /\ ready' = TRUE
    /\ taskSt' = CancelTask(taskSt)
    /\ in_reconnect' = FALSE
    /\ delay' = 0
    /\ pc' = "recv"
    /\ buffered' \in BOOLEAN

\* lines 193-199: start the poller if none runs, grow the delay, sleep
FailTail ==
    /\ taskSt' = EnsureTask(taskSt)
    /\ ready' = (ready \/ taskSt' # taskSt)
    /\ in_reconnect' = TRUE
    /\ delay' = NextDelay(delay)
    /\ prevDelay' = delay'
    /\ pc' = "sleep"
    /\ buffered' = FALSE

\* lines 179-184: close(), drop the config, connect() again
AuthFailure ==
    /\ closed' = TRUE
    /\ ws' = IF ws = "open" THEN "closed" ELSE ws
    /\ websocket_config' = ConfigAfterAuthFailure
    /\ pc' = connect(websocket_config')
    /\ ready' = (ready \/ ~websocket_config')
    /\ authFailed' = TRUE
    /\ buffered' = FALSE
    /\ UNCHANGED <<in_reconnect, delay, taskSt, ws_node, prevDelay>>

\* head of the loop: dial when there is no usable socket, else go on reading
Top ==
    /\ pc = "top" /\ ~closed
    /\ IF ws # "open"
       THEN /\ pc' = "dial"
            /\ UNCHANGED <<ready, in_reconnect, delay, taskSt, buffered>>
       ELSE Resume
    /\ UNCHANGED <<closed, websocket_config, ws, ws_node, authFailed, prevDelay>>
    /\ UNCHANGED <<closeRequested, fetching>>
    /\ cause' = (IF ws # "open" THEN cause ELSE "none")
    /\ idle' = 0
    /\ UNCHANGED <<rejected>>
    /\ UNCHANGED orphans
    /\ UNCHANGED <<ingestVars, ioVars>>

\* the dial is answered with info code 200: ExpTechWebSocket.connect called
\* with a session, as WebsocketClient.connect calls it
DialOk ==
    /\ pc = "dial" /\ CanResume
    /\ ws' = "open"
    /\ Resume
    /\ prevDelay' = 0
    /\ UNCHANGED <<closed, websocket_config, ws_node, authFailed>>
    /\ UNCHANGED <<closeRequested, fetching>>
    /\ cause' = "none"
    /\ idle' = 0
    /\ UNCHANGED <<rejected>>
    /\ UNCHANGED orphans
    /\ UNCHANGED <<ingestVars, ioVars>>

\* the dial fails: 400/429 (WebSocketReconnect) or any other exception
\* (connection error or closure during the handshake; the TypeError of
\* HTTPClient.ws_connect, line 217, which calls ExpTechWebSocket.connect
\* without its session argument)
DialFail ==
    /\ pc = "dial" /\ CanResume
    /\ FailTail
    /\ UNCHANGED <<closed, websocket_config, ws, ws_node, authFailed>>
    /\ UNCHANGED <<closeRequested, fetching>>
    /\ cause' = "dial"
    /\ idle' = 0
    /\ UNCHANGED <<rejected>>
    /\ UNCHANGED orphans
    /\ UNCHANGED <<ingestVars, ioVars>>

\* the subscribe message of the dial is not answered within 60 s: wait_for
\* raises TimeoutError out of connect(), caught by "except Exception"
DialTimesOut ==
    /\ pc = "dial" /\ CanResume
    /\ FailTail
    /\ cause' = "timeout_dial"
    /\ idle' = 0
    /\ UNCHANGED <<closed, websocket_config, ws, ws_node, authFailed>>
    /\ UNCHANGED <<closeRequested, fetching, rejected>>
    /\ UNCHANGED orphans
    /\ UNCHANGED <<ingestVars, ioVars>>

\* the dial is answered with info code 401 or 403
DialAuth ==
    /\ pc = "dial" /\ CanResume
    /\ AuthFailure
    /\ UNCHANGED <<closeRequested, fetching>>
    /\ cause' = "auth"
    /\ idle' = 0
    /\ rejected' = "open"
    /\ UNCHANGED orphans
    /\ UNCHANGED <<ingestVars, ioVars>>

\* pool_event handles a frame (or logs a WebSocketException) and returns
RecvFrame ==
    /\ pc = "recv" /\ (buffered \/ CanResume)
    /\ ws = "open"
    /\ buffered' \in BOOLEAN
    /\ UNCHANGED <<pc, closed, websocket_config, ws, ready, in_reconnect, delay,
                   taskSt, ws_node, authFailed, prevDelay>>
    /\ UNCHANGED <<closeRequested, fetching>>
    /\ idle' = 0
    /\ UNCHANGED <<cause, rejected>>
    /\ UNCHANGED orphans
    /\ UNCHANGED <<ingestVars, ioVars>>

\* a verify frame or an info 503: the subscribe message is sent again
RecvVerify ==
    /\ pc = "recv" /\ (buffered \/ CanResume)
    /\ ws = "open"
    /\ pc' = Resubscribe(ws)
    /\ buffered' = FALSE
    /\ UNCHANGED <<closed, websocket_config, ws, ready, in_reconnect, delay,
                   taskSt, ws_node, authFailed, prevDelay>>
    /\ UNCHANGED <<closeRequested, fetching>>
    /\ idle' = 0
    /\ UNCHANGED <<cause, rejected>>
    /\ UNCHANGED orphans
    /\ UNCHANGED <<ingestVars, ioVars>>

\* the re-subscribe is accepted
VerifyOk ==
    /\ pc = "verify" /\ CanResume
    /\ ws = "open"
    /\ pc' = "recv"
    /\ buffered' \in BOOLEAN
    /\ prevDelay' = 0
    /\ UNCHANGED <<closed, websocket_config, ws, ready, in_reconnect, delay,
                   taskSt, ws_node, authFailed>>
    /\ UNCHANGED <<closeRequested, fetching>>
    /\ idle' = 0
    /\ UNCHANGED <<cause, rejected>>
    /\ UNCHANGED orphans
    /\ UNCHANGED <<ingestVars, ioVars>>

\* the re-subscribe is answered with 401 or 403
VerifyAuth ==
    /\ pc = "verify" /\ CanResume
    /\ ws = "open"
    /\ AuthFailure
    /\ UNCHANGED <<closeRequested, fetching>>
    /\ cause' = "auth"
    /\ idle' = 0
    /\ rejected' = "closed"
    /\ UNCHANGED orphans
    /\ UNCHANGED <<ingestVars, ioVars>>

\* the re-subscribe is answered with 400 or 429: WebSocketReconnect(reopen=True),
\* the open socket is closed first
VerifyReopen ==
    /\ pc = "verify" /\ CanResume
    /\ ws = "open"
    /\ pc' = "closing"
    /\ UNCHANGED <<closed, websocket_config, ws, ready, in_reconnect, delay,
                   taskSt, buffered, ws_node, authFailed, prevDelay>>
    /\ UNCHANGED <<closeRequested, fetching>>
    /\ cause' = "reopen"
    /\ idle' = 0
    /\ UNCHANGED <<rejected>>
    /\ UNCHANGED orphans
    /\ UNCHANGED <<ingestVars, ioVars>>

\* self._ws.close() returns
Closed ==
    /\ pc = "closing" /\ CanResume
    /\ ws' = "closed"
    /\ FailTail
    /\ UNCHANGED <<closed, websocket_config, ws_node, authFailed>>
    /\ UNCHANGED <<closeRequested, fetching>>
    /\ idle' = 0
    /\ UNCHANGED <<cause, rejected>>
    /\ UNCHANGED orphans
    /\ UNCHANGED <<ingestVars, ioVars>>

\* the re-subscribe is not answered within 60 s: wait_for raises TimeoutError,
\* pool_event turns it into WebSocketReconnect(reopen=False) and the handler
\* leaves the socket as it is
ResubscribeTimesOut ==
    /\ pc = "verify" /\ CanResume
    /\ ws = "open"
    /\ FailTail
    /\ cause' = "timeout_resubscribe"
    /\ idle' = 0
    /\ UNCHANGED <<closed, websocket_config, ws, ws_node, authFailed>>
    /\ UNCHANGED <<closeRequested, fetching, rejected>>
    /\ UNCHANGED orphans
    /\ UNCHANGED <<ingestVars, ioVars>>

\* the re-subscribe raises anything else (an error frame, undecodable JSON)
VerifyFail ==
    /\ pc = "verify" /\ CanResume
    /\ FailTail
    /\ UNCHANGED <<closed, websocket_config, ws, ws_node, authFailed>>
    /\ UNCHANGED <<closeRequested, fetching>>
    /\ cause' = "verify_error"
    /\ idle' = 0
    /\ UNCHANGED <<rejected>>
    /\ UNCHANGED orphans
    /\ UNCHANGED <<ingestVars, ioVars>>

\* the socket closes while the reply is awaited: WebSocketReconnect(reopen=True)
\* from pool_event, nothing left to close
VerifyClosure ==
    /\ pc = "verify" /\ CanResume
    /\ ws' = "closed"
    /\ FailTail
    /\ UNCHANGED <<closed, websocket_config, ws_node, authFailed>>
    /\ UNCHANGED <<closeRequested, fetching>>
    /\ cause' = "closure"
    /\ idle' = 0
    /\ UNCHANGED <<rejected>>
    /\ UNCHANGED orphans
    /\ UNCHANGED <<ingestVars, ioVars>>

\* the socket is found closed: WebSocketReconnect(reopen=True), nothing to close
RecvClosure ==
    /\ pc = "recv" /\ (buffered \/ CanResume)
    /\ ws' = "closed"
    /\ FailTail
    /\ UNCHANGED <<closed, websocket_config, ws_node, authFailed>>
    /\ UNCHANGED <<closeRequested, fetching>>
    /\ cause' = "closure"
    /\ idle' = 0
    /\ UNCHANGED <<rejected>>
    /\ UNCHANGED orphans
    /\ UNCHANGED <<ingestVars, ioVars>>

\* receive() returns a CLOSING frame: WebSocketReconnect(reopen=True) while the
\* socket is not closed yet, so the handler closes it (lines 186-187)
RecvClosing ==
    /\ pc = "recv" /\ (buffered \/ CanResume)
    /\ ws = "open"
    /\ pc' = AfterClosing(ws)
    /\ buffered' = FALSE
    /\ cause' = "closure"
    /\ idle' = 0
    /\ UNCHANGED <<closed, websocket_config, ws, ready, in_reconnect, delay,
                   taskSt, ws_node, authFailed, prevDelay>>
    /\ UNCHANGED <<closeRequested, fetching, rejected>>
    /\ UNCHANGED orphans
    /\ UNCHANGED <<ingestVars, ioVars>>

\* no frame arrives for another IdleStep seconds: receive() is called without
\* a timeout and the session has no receive_timeout and no heartbeat, so
\* pool_event goes on waiting
Quiet ==
    /\ pc = "recv" /\ ~buffered
    /\ ws = "open"
    /\ idle + IdleStep <= MaxIdle
    /\ idle' = idle + IdleStep
    /\ UNCHANGED <<pc, closed, websocket_config, ws, ready, in_reconnect, delay,
                   taskSt, buffered, ws_node, authFailed, prevDelay>>
    /\ UNCHANGED <<closeRequested, fetching, cause, rejected>>
    /\ UNCHANGED orphans
    /\ UNCHANGED <<ingestVars, ioVars>>

\* handling the frame raises (undecodable JSON, unknown data type, ...)
RecvError ==
    /\ pc = "recv" /\ (buffered \/ CanResume)
    /\ ws = "open"
    /\ FailTail
    /\ UNCHANGED <<closed, websocket_config, ws, ws_node, authFailed>>
    /\ UNCHANGED <<closeRequested, fetching>>
    /\ cause' = "error"
    /\ idle' = 0
    /\ UNCHANGED <<rejected>>
    /\ UNCHANGED orphans
    /\ UNCHANGED <<ingestVars, ioVars>>

\* the sleep is over: switch node and loop
Wake ==
    /\ pc = "sleep" /\ CanResume
    /\ ws_node' = NextWsNode(ws_node)
    /\ pc' = "top"
    /\ UNCHANGED <<closed, websocket_config, ws, ready, in_reconnect, delay,
                   taskSt, buffered, authFailed, prevDelay>>
    /\ UNCHANGED <<closeRequested, fetching>>
    /\ idle' = 0
    /\ UNCHANGED <<cause, rejected>>
    /\ UNCHANGED orphans
    /\ UNCHANGED <<ingestVars, ioVars>>

\* _get_eew_loop of the reconnect poller: "except asyncio.CancelledError: return"
PollerCancelled ==
    /\ taskSt = "cancelling" /\ Suspended
    /\ taskSt' = "done"
    /\ fetching' = fetching \ {"task"}
    /\ orphans' = IF "task" \in fetching /\ orphans < MaxOrphans
                  THEN orphans + 1 ELSE orphans
    /\ UNCHANGED <<pc, closed, websocket_config, ws, ready, in_reconnect, delay,
                   buffered, ws_node, authFailed, prevDelay>>
    /\ UNCHANGED closeRequested
    /\ UNCHANGED <<cause, idle, rejected>>
    /\ UNCHANGED <<ingestVars, ioVars>>

\* a get_eew task that outlived its poller loop ends
OrphanEnd ==
    /\ orphans > 0 /\ Suspended
    /\ orphans' = orphans - 1
    /\ UNCHANGED <<pc, closed, websocket_config, ws, ready, in_reconnect, delay, taskSt,
                   buffered, ws_node, authFailed, prevDelay, closeRequested, fetching>>
    /\ UNCHANGED <<cause, idle, rejected>>
    /\ UNCHANGED <<ingestVars, ioVars>>

\* "while not self.__closed" is false: ws_connect returns
Exit ==
    /\ pc = "top" /\ closed
    /\ pc' = "returned"
    /\ UNCHANGED <<closed, websocket_config, ws, ready, in_reconnect, delay, taskSt,
                   buffered, ws_node, authFailed, prevDelay, closeRequested, fetching>>
    /\ UNCHANGED <<cause, idle, rejected>>
    /\ UNCHANGED orphans
    /\ UNCHANGED <<ingestVars, ioVars>>

\* Client.close() called by the application while the supervisor is suspended:
\* the flag is set and the socket held by self._ws, if any, is closed
Close ==
    /\ ~closeRequested /\ Suspended
    /\ closeRequested' = TRUE
    /\ closed' = TRUE
    /\ ws' = IF ws = "open" THEN "closed" ELSE ws
    /\ UNCHANGED <<pc, websocket_config, ready, in_reconnect, delay, taskSt,
                   buffered, ws_node, authFailed, prevDelay, fetching>>
    /\ UNCHANGED <<cause, idle, rejected>>
    /\ UNCHANGED orphans
    /\ UNCHANGED <<ingestVars, ioVars>>

\* the poller loops that are running: the reconnect poller until its
\* cancellation is requested, the inline loop entered by connect()
ActiveLoops ==
    (IF taskSt = "running" THEN {"task"} ELSE {}) \cup
    (IF pc = "http" THEN {"inline"} ELSE {})

\* _get_eew_loop, one turn: "if not task or task.done(): task = create_task(get_eew())"
PollStart(l) ==
    /\ l \in ActiveLoops /\ Suspended
    /\ l \notin fetching
    /\ fetching' = fetching \cup {l}
    /\ UNCHANGED <<pc, closed, websocket_config, ws, ready, in_reconnect, delay, taskSt,
                   buffered, ws_node, authFailed, prevDelay, closeRequested>>
    /\ UNCHANGED <<cause, idle, rejected>>
    /\ UNCHANGED orphans
    /\ UNCHANGED <<ingestVars, ioVars>>

\* the get_eew task of a loop ends (snapshot handled, or failure logged); the
\* handling of the snapshot itself is the subject of Spec and SpecHTTP
PollEnd(l) ==
    /\ l \in fetching /\ Suspended
    /\ fetching' = fetching \ {l}
    /\ UNCHANGED <<pc, closed, websocket_config, ws, ready, in_reconnect, delay, taskSt,
                   buffered, ws_node, authFailed, prevDelay, closeRequested>>
    /\ UNCHANGED <<cause, idle, rejected>>
    /\ UNCHANGED orphans
    /\ UNCHANGED <<ingestVars, ioVars>>

WsNext ==
    \/ Top
    \/ DialOk
    \/ DialFail
    \/ DialTimesOut
    \/ DialAuth
    \/ RecvFrame
    \/ RecvVerify
    \/ VerifyOk
    \/ VerifyAuth
    \/ VerifyReopen
    \/ Closed
    \/ ResubscribeTimesOut
    \/ VerifyFail
    \/ VerifyClosure
    \/ RecvClosure
    \/ RecvClosing
    \/ RecvError
    \/ Quiet
    \/ Wake
    \/ PollerCancelled
    \/ OrphanEnd
    \/ Exit
    \/ Close
    \/ \E l \in {"task", "inline"} : PollStart(l)
    \/ \E l \in {"task", "inline"} : PollEnd(l)

vars == <<ingestVars, wsVars, ioVars>>

\* no notifier task has run, no request has been made, the HTTP-mode loop has
\* not turned yet
IoInit ==
    /\ outcome = [j \in {} |-> "returned"]
    /\ req = ReqIdle(0)
    /\ poll = PollIdle
    /\ pool = PoolInit
    /\ wave = WaveInit
    /\ intensity = IntensityNone
    /\ loader = LoaderIdle
    /\ hs = HsIdle
    /\ bot = BotInit
    /\ sock = SockInit
    /\ quake = QuakeInit

\* the ingest path alone: bulletins arrive from the WebSocket and from HTTP
\* polls in any order while the clock advances; the supervisor is left aside
Init == IngestInit /\ WsInit /\ websocket_config /\ IoInit
Next == IngestNext
Spec == Init /\ [][Next]_vars

\* the supervisor alone, whatever the upstream answers
InitWS == WsInit /\ IngestInit /\ eew_source.none /\ IoInit
NextWS == WsNext
SpecWS == InitWS /\ [][NextWS]_vars

\* the client at rest: what the library functions below are applied from
InitLib == Init /\ eew_source.none

\* the node pool of HTTPClient under its operations: a probe and the switches
NextPool ==
    \/ \E answers \in [ApiNodes -> ProbeOutcomes] : Probe(answers)
    \/ \E mode \in {"next", "fastest", "random"} : SwitchMode(mode)
    \/ \E url \in {0} : SwitchUrl(url)
SpecPool == InitLib /\ [][NextPool]_vars

\* get_wave_model called from several threads
NextWave ==
    \/ \E t \in Threads, depth \in WaveDepths : get_wave_model(t, depth)
    \/ \E t \in Threads : BuildModel(t)
    \/ \E t \in Threads : StoreModel(t)
SpecWave == InitLib /\ [][NextWave]_vars

\* the scan of the notifier directory at startup
NextLoad == \E dir \in Directories : load_notification_clients(dir)
SpecLoad == InitLib /\ [][NextLoad]_vars

\* one handshake of ExpTechWebSocket: the subscribe message and the frames
\* that answer it
NextVerify ==
    \/ StartVerify
    \/ \E f \in Frames, dt \in FrameGaps : VerifyFrame(f, dt)
    \/ VerifyTimesOut
SpecVerify == InitLib /\ [][NextVerify]_vars

\* the Discord notifier alone: bulletins, updates and lifts reach it in any
\* order while its one-second loop turns
NextBot ==
    \/ \E id \in AlertIds, origin \in BotOrigins : SendEew(id, origin)
    \/ \E id \in AlertIds, origin \in BotOrigins : UpdateEew(id, origin)
    \/ \E id \in AlertIds : LiftEew(id)
    \/ LoopIteration
    \/ LoopExit
    \/ Second
SpecBot == InitLib /\ [][NextBot]_vars

\* one subscribed socket read frame by frame
NextFrames ==
    \/ \E f \in SockFrames : PoolEvent(f)
    \/ \E f \in SockFrames : VerifyRead(f)
SpecFrames == InitLib /\ [][NextFrames]_vars

\* one EarthquakeData and the calls of its two intensity methods
NextQuake ==
    \/ \E float \in [RegionCodes -> FloatValues] : NewQuake(float)
    \/ \E regions \in SUBSET RegionCodes : CalcExpected(regions)
    \/ CalcCityMax
SpecQuake == InitLib /\ [][NextQuake]_vars

\* round_intensity and Intensity applied to every float intensity of the range
NextIntensity == \E x \in IntensityLow..IntensityHigh : NewIntensity(x)
SpecIntensity == InitLib /\ [][NextIntensity]_vars

\* HTTP mode: the polling loop, its fetches and the requests behind them
NextHTTP ==
    \/ \E r \in 0..MaxRetry : Request(r)
    \/ LoopTurn
    \/ RequestOk
    \/ \E snapshot \in Snapshots(now) : FetchOk(snapshot)
    \/ AttemptFail
    \/ AttemptFailInHandler
    \/ RetryWake
InitHTTP == IngestInit /\ WsInit /\ ~websocket_config /\ IoInit
SpecHTTP == InitHTTP /\ [][NextHTTP]_vars

\* the ingest path together with the event loop that runs the notifier tasks
\* it creates
NextNotify ==
    \/ Tick
    \/ \E data \in Bulletins(now) : WsEew(data)
    \/ \E i \in DOMAIN trace : TaskReturns(i)
    \/ \E i \in DOMAIN trace : TaskRaises(i)
    \/ \E i \in DOMAIN trace : TaskSuspends(i)
InitNotify == Init /\ eew_source.none
SpecNotify == InitNotify /\ [][NextNotify]_vars

\* ======================================================================
\* Properties
\* ======================================================================
Min(a, b) == IF a < b THEN a ELSE b

\* the notifier tasks created for one alert id and one notifier, in order
EventsOf(id, c) ==
    SelectSeq(trace, LAMBDA e : e.id = id /\ e.client = c)

\* the handler that ran last read the alert table (expire() was called)
Accessed ==
    /\ last.op \in {"on_eew", "get_eew"}
    /\ \E k \in DOMAIN last.cls : last.cls[k] # "filtered"

\* C1: for every id and notifier the events scheduled form a prefix of
\* send, update, update, ..., lift: the first one is the only send_eew and
\* nothing follows a lift_eew.
C1_EventOrder ==
    \A id \in Ids, c \in Clients :
        LET ev == EventsOf(id, c)
        IN  \A i \in DOMAIN ev :
                /\ (ev[i].kind = "send") <=> (i = 1)
                /\ (ev[i].kind = "lift") => (i = Len(ev))

\* C2: for every (id, serial) pair at most one send_eew or update_eew is
\* dispatched to each notifier, however often the pair is delivered.
C2_OncePerSerial ==
    \A id \in Ids, s \in Serials, c \in Clients :
        Cardinality({i \in DOMAIN trace :
                        /\ trace[i].kind \in {"send", "update"}
                        /\ trace[i].id = id
                        /\ trace[i].serial = s
                        /\ trace[i].client = c}) <= 1

\* C3: when the snapshot of a successful poll (the empty list included) lacks
\* an id that is in the alert table, that id is removed from the table and
\* exactly one lift_eew for it is dispatched to every notifier.
C3_LiftOnAbsence ==
    [][last'.op = "get_eew" =>
        \A id \in DOMAIN Expire(alerts, now) :
            (\A k \in DOMAIN last'.ids : last'.ids[k] # id) =>
                /\ id \notin DOMAIN alerts'
                /\ \A c \in Clients :
                     Cardinality({j \in (Len(trace) + 1)..Len(trace') :
                                     /\ trace'[j].kind = "lift"
                                     /\ trace'[j].id = id
                                     /\ trace'[j].client = c}) = 1]_vars

\* C4: whenever the table holds an entry for an id, its serial is at least
\* every serial the table held for that id before (each write of the table
\* is followed by the start of a computation, which the trace records).
C4_SerialMonotonic ==
    \A id \in DOMAIN alerts :
        \A i \in DOMAIN trace :
            (trace[i].kind = "calc" /\ trace[i].id = id)
                => alerts[id].serial >= trace[i].serial

\* C5: a handler whose bulletins all carry a serial lower than or equal to
\* the one stored (and not expired) for their id changes neither the entry of
\* the id, nor any computation, nor the notifier tasks.
C5_StaleDropped ==
    [][(/\ last'.op \in {"on_eew", "get_eew"}
        /\ last'.cls # <<>>
        /\ \A k \in DOMAIN last'.cls : last'.cls[k] \in {"duplicate", "stale"})
       => /\ \A k \in DOMAIN last'.ids :
                /\ last'.ids[k] \in DOMAIN alerts'
                /\ alerts'[last'.ids[k]] = alerts[last'.ids[k]]
          /\ calcs' = calcs
          /\ trace' = trace]_vars

\* C5 witness: a bulletin with a lower serial than the stored one was dropped
C5_Witness ==
    /\ last.op = "on_eew"
    /\ last.cls = <<"stale">>
    /\ \E h \in DOMAIN calcs : calcs[h].st = "running"

\* C6: in WS mode, whenever the supervisor waits out the reconnect delay, the
\* HTTP poller it started is active (neither cancelled nor finished).
C6_PollerWhileWaiting ==
    pc = "sleep" => taskSt = "running"

\* C7: once a subscribe was answered with 401 or 403 the supervisor is in the
\* HTTP polling loop for good: it never stands at a dial again, the
\* WebSocket configuration stays dropped and the loop is not left.
C7_AuthFailedStaysHttp ==
    authFailed => (pc = "http" /\ ~websocket_config)

\* C7 witness: the rejection arrived on a re-subscribe of an open session
C7_Witness ==
    authFailed /\ ws = "closed" /\ pc = "http"

\* C8: the delay waited after a failure is min(10, 600) when a subscribe was
\* accepted since the previous failure (or there was none), and the previous
\* delay plus 10, capped at 600, otherwise: min(10*k, 600) after k consecutive
\* failures; and the delay returns to 0 only when a subscribe is accepted.
C8_ReconnectDelay ==
    [][/\ (pc' = "sleep" /\ pc # "sleep")
            => delay' = Min(prevDelay + DelayStep, MaxDelay)
       /\ (delay' = 0 /\ delay # 0)
            => (pc \in {"dial", "verify"} /\ pc' = "recv")]_vars

C10_CancelBeforeUpdate ==
    [][\A j \in (Len(trace) + 1)..Len(trace') :
          (trace'[j].kind = "update" /\ trace'[j].id \in DOMAIN alerts) =>
              LET old == alerts[trace'[j].id].calc
              IN  calcs[old].st = "running" =>
                    /\ calcs'[old].st = "cancelled"
                    /\ \E k \in (Len(trace) + 1)..(j - 1) :
                          trace'[k].kind = "cancel" /\ trace'[k].calc = old]_vars

\* C10 witness: an update replaced an entry whose computation was in flight
C10_Witness ==
    /\ \E j \in DOMAIN trace : trace[j].kind = "update"
    /\ \E h \in DOMAIN calcs : calcs[h].st = "cancelled"

\* the computations of an alert id that are started and neither finished nor
\* cancelled
RunningCalcs(id) ==
    {h \in DOMAIN calcs : calcs[h].id = id /\ calcs[h].st = "running"}

\* C11: at every instant at most one computation is running per alert id,
\* whatever the sequence of new bulletins, updates and expirations followed
\* by a re-insertion of the id.
C11_OneCalcPerId ==
    \A id \in Ids : Cardinality(RunningCalcs(id)) <= 1

\* the bulletins of the last handler all come from providers that are not
\* enabled by the configured whitelist
AllFromDisabled(l) ==
    /\ l.op \in {"on_eew", "get_eew"}
    /\ l.ids # <<>>
    /\ ~eew_source.none
    /\ \A k \in DOMAIN l.ids : AuthorOf(l.ids[k]) \notin eew_source.list

\* C14: with a whitelist, a handler whose bulletins all come from providers
\* that are not enabled leaves the table, the computations and the notifier
\* tasks as they are, and no entry, computation or notifier task ever belongs
\* to such a provider; without a whitelist (eew_source.all) every bulletin
\* handled has an entry in the table afterwards, whoever its author is.
C14_ProviderFilter ==
    [][/\ AllFromDisabled(last')
            => (alerts' = alerts /\ calcs' = calcs /\ trace' = trace)
       /\ ~eew_source.none
            => /\ \A id \in DOMAIN alerts' : AuthorOf(id) \in eew_source.list
               /\ \A i \in DOMAIN trace' : AuthorOf(trace'[i].id) \in eew_source.list
               /\ \A h \in DOMAIN calcs' : AuthorOf(calcs'[h].id) \in eew_source.list
       /\ (eew_source.none /\ last'.op \in {"on_eew", "get_eew"})
            => \A k \in DOMAIN last'.ids : last'.ids[k] \in DOMAIN alerts']_vars

\* C14 witness: a bulletin of a provider that is not enabled was delivered
\* while the table held an alert of an enabled one
C14_Witness ==
    /\ AllFromDisabled(last)
    /\ last.op = "on_eew"
    /\ alerts # <<>>

\* C18: when a snapshot holds a bulletin that fails to decode, every other
\* bulletin of the snapshot that announces an alert absent from the table
\* (and passes the provider filter) is handled all the same, wherever it
\* stands in the array: its entry is written and its send_eew is dispatched.
C18_OthersStillHandled ==
    [][last'.op = "get_eew_bad" =>
        \A p \in DOMAIN last'.ids :
            (/\ last'.cls[p] # "undecodable"
             /\ eew_source.none \/ AuthorOf(last'.ids[p]) \in eew_source.list
             /\ last'.ids[p] \notin DOMAIN Expire(alerts, now))
            => /\ last'.ids[p] \in DOMAIN alerts'
               /\ \E j \in (Len(trace) + 1)..Len(trace') :
                     trace'[j].kind = "send" /\ trace'[j].id = last'.ids[p]]_vars

\* the client was started with a WebSocket configuration (an API key)
StartedWithConfig == websocket_config \/ authFailed

\* C15: a client started without a configuration runs the HTTP polling loop
\* and nothing else: no socket is ever dialled or held and no reconnect poller
\* exists; a client that holds a configuration is in the WebSocket supervisor,
\* never in the inline polling loop.
C15_ModeByConfig ==
    /\ ~StartedWithConfig
          => (pc = "http" /\ ws = "none" /\ taskSt = "none" /\ fetching \subseteq {"inline"})
    /\ websocket_config => pc # "http"

\* C15 witness: the client without a configuration is polling
C15_Witness ==
    ~StartedWithConfig /\ "inline" \in fetching

\* C16: at most one HTTP poller loop is active at any time.
C16_OnePoller ==
    Cardinality(ActiveLoops) <= 1

\* C17: once close() has been called and has returned, no poller loop turns
\* any more (no fetch is started), no poller is started, and no socket is
\* opened.
C17_QuietAfterClose ==
    [][closeRequested =>
         /\ fetching' \subseteq fetching
         /\ taskSt' = "running" => taskSt = "running"
         /\ ws' = "open" => ws = "open"]_vars

\* the notifier tasks that ended as res
Ended(res) == {i \in DOMAIN outcome : outcome[i] = res}

\* the task of notifier c in the dispatch that task i belongs to
Siblings(i, c) ==
    {j \in DOMAIN trace : SameDispatch(trace, i, j) /\ trace[j].client = c}

\* while the bound on computations leaves room, every bulletin the upstream
\* may deliver now can be handled
IngestOpen ==
    Len(calcs) < MaxCalcs => \A data \in Bulletins(now) : ENABLED WsEew(data)

C13_NoWaitOnNotifier ==
    /\ \A i \in DOMAIN trace :
          (trace[i].client > 0 /\ last.op = "on_eew")
              => (i \in DOMAIN outcome \/ i \in Runnable(trace, outcome))
    /\ Ended("suspended") # {} =>
          /\ Pending(trace, outcome) \subseteq Runnable(trace, outcome)
          /\ Pending(trace, outcome) # {}
                => ENABLED TaskReturns(NextTask(trace, outcome))
          /\ IngestOpen

\* C13 witness: the first notifier's send_eew never returned, the second
\* notifier's send_eew for the same alert ran, and a later revision was then
\* handled with its tasks waiting in the queue
C13_Witness ==
    /\ last.op = "on_eew" /\ last.cls = <<"update">>
    /\ \E i \in Ended("suspended") :
          /\ trace[i].kind = "send" /\ trace[i].id = last.ids[1]
          /\ \E j \in Siblings(i, 2) : j \in Ended("returned")
    /\ Pending(trace, outcome) # {}

\* C19: a failed fetch never stops the poller: its loop keeps running, after
\* any number of failed fetches in a row the next turn issues a fetch again,
\* and the bulletins of the first snapshot fetched after the failures are
\* handled (those that pass the provider filter are in the table).
C19_PollerSurvivesFailures ==
    /\ [](/\ poll.loop = "running"
          /\ (poll.task = "done" /\ req.st \in {"returned", "raised"})
                => ENABLED LoopTurn)
    /\ [][(poll.task = "fetching" /\ req'.st = "returned") =>
            /\ last'.op = "get_eew"
            /\ poll'.recovered = poll.failures
            /\ \A k \in DOMAIN last'.ids :
                  (eew_source.none \/ AuthorOf(last'.ids[k]) \in eew_source.list)
                      => last'.ids[k] \in DOMAIN alerts']_vars

\* C19 witness: MaxFailures fetches failed in a row and the next one brought
\* a snapshot whose alert is now in the table
C19_Witness ==
    /\ poll.task = "done" /\ poll.recovered = MaxFailures
    /\ last.op = "get_eew"
    /\ \E k \in DOMAIN last.cls : last.cls[k] = "new"

\* C20: request(method, path, retry=r) makes at most r + 1 attempts;
\* consecutive attempts target consecutive nodes of the list; a response is
\* returned with the node of the attempt still selected; the error is raised
\* only after r + 1 failed attempts, each followed by a switch to the next node.
C20_RequestRetry ==
    LET n == Len(req.targets)
    IN  /\ n <= req.first + 1
        /\ \A k \in 1..(n - 1) : req.targets[k + 1] = NextApiNode(req.targets[k])
        /\ req.st = "returned" => req.node = req.targets[n]
        /\ req.st = "sleep" => req.node = NextApiNode(req.targets[n])
        /\ req.st = "raised" =>
              /\ n = req.first + 1
              /\ req.node = NextApiNode(req.targets[n])

\* the float intensities of the range
Intensities == IntensityLow..IntensityHigh

\* C24: the bucket of every float intensity follows the mapping
\* <0 -> 0; <4.5 -> round; <5 -> 5; <5.5 -> 6; <6 -> 7; <6.5 -> 8; else 9,
\* it is an integer of 0..9 with a display string, and no lower float
\* intensity has a higher bucket.
C24_BucketMapping ==
    intensity.built =>
        LET x == intensity.value
            b == intensity.bucket
        IN  /\ b = CASE x < 0 -> 0
                     [] x >= 0 /\ x < 450 -> round(x)
                     [] x >= 450 /\ x < 500 -> 5
                     [] x >= 500 /\ x < 550 -> 6
                     [] x >= 550 /\ x < 600 -> 7
                     [] x >= 600 /\ x < 650 -> 8
                     [] OTHER -> 9
            /\ b \in 0..9
            /\ intensity.display = INTENSITY_DISPLAY[b]
            /\ \A y \in Intensities : y <= x => round_intensity(y) <= b

\* C24 witness: 2.5 is a tie of round() and falls in bucket 2
C24_Witness ==
    intensity.built /\ intensity.value = 250 /\ intensity.bucket = 2

\* C21: after a probe the list is in ascending order of latency, the nodes
\* that raised or answered with a status outside 2xx come after all the
\* others, and nodes of equal latency are in the order of API_NODES.
C21_ProbeSorted ==
    pool.probed =>
        \A i, j \in DOMAIN pool.list :
            i < j =>
                /\ pool.list[i].lat <= pool.list[j].lat
                /\ pool.list[i].lat = pool.list[j].lat
                      => pool.list[i].node < pool.list[j].node
                /\ pool.list[i].status \notin 200..299
                      => pool.list[j].status \notin 200..299

\* the position of the node in use in the list, 0 when it is not in the list
PositionOf(pl) ==
    IF \E i \in DOMAIN pl.list : pl.list[i].node = pl.url
    THEN CHOOSE i \in DOMAIN pl.list : pl.list[i].node = pl.url
    ELSE 0

RECURSIVE NextTimes(_, _)
\* the nodes selected by n consecutive switch_api_node("next")
NextTimes(pl, n) ==
    IF n = 0 THEN <<>>
    ELSE LET q == switch_api_node(pl, "next", 0, 0)
         IN  <<q.url>> \o NextTimes(q, n - 1)

\* C22: whenever the node in use is a node of the list, "next" selects the
\* node that follows it in the list (the first after the last), N
\* consecutive "next" on the N nodes select every node once and end on the
\* node they started from, and "fastest" selects the first node of the list.
C22_SwitchRotation ==
    LET n == Len(pool.list)
        k == PositionOf(pool)
        run == NextTimes(pool, n)
    IN  /\ k # 0 =>
              /\ switch_api_node(pool, "next", 0, 0).url = pool.list[(k % n) + 1].node
              /\ {run[i] : i \in 1..n} = {pool.list[i].node : i \in 1..n}
              /\ run[n] = pool.url
        /\ switch_api_node(pool, "fastest", 0, 0).url = pool.list[1].node

\* C23: every depth is stored in the cache at most once, a depth filled at
\* import never again, the cache holds the model of the build that completed
\* first, and all the callers that asked for a depth were given one and the
\* same model.
C23_SingleBuild ==
    \A d \in WaveDepths :
        /\ wave.writes[d] <= (IF Prefilled(d) THEN 0 ELSE 1)
        /\ (wave.cache[d] # NoModel /\ ~Prefilled(d)) => wave.cache[d] = wave.first[d]
        /\ Cardinality(wave.got[d]) <= 1
\* C25: after the scan the notifier list holds, once each and in the order
\* of the directory, the entries that define register, have their config
\* section and whose register returned a notifier; whatever the other
\* entries are (skipped, or raising in import or register), before or after.
C25_LoadRegisters ==
    loader.scanned =>
        LET nc == loader.notification_client
            ok == {i \in DOMAIN loader.dir : loader.dir[i] = "ok"}
        IN  /\ {nc[k] : k \in DOMAIN nc} = ok
            /\ Len(nc) = Cardinality(ok)
            /\ \A k, l \in DOMAIN nc : k < l => nc[k] < nc[l]

\* C25 witness: a directory whose first entry raises in register, whose second
\* is skipped for its missing config and whose third is registered
C25_Witness ==
    /\ loader.scanned
    /\ loader.dir = <<"register_raises", "no_config", "ok">>
    /\ loader.notification_client = <<3>>

\* the frame that the handshake has consumed last
LastFrame == hs.seen[Len(hs.seen)]

\* the frame is an info frame with one of the codes
IsInfo(f, codes) == f.kind = "text" /\ f.type = "info" /\ f.code \in codes

\* the part of C26 on the info frames with a decisive code
DecisiveCodes ==
    LET f == LastFrame
    IN  /\ IsInfo(f, {200}) =>
              hs.st = "subscribed" /\ hs.subscribed_services = f.list
        /\ IsInfo(f, {400, 429}) => hs.st = "WebSocketReconnect" /\ hs.reopen
        /\ IsInfo(f, {401, 403}) => hs.st = "AuthorizationFailed"

\* C26: after an info frame of code 200 the handshake is over with the
\* frame's list as the subscribed services, after code 400 or 429 a reconnect
\* signal with reopen is raised, after code 401 or 403 AuthorizationFailed,
\* and after any other frame the handshake is still waiting for a frame (or
\* has run into its timeout since).
C26_VerifyReplies ==
    Len(hs.seen) > 0 =>
        /\ DecisiveCodes
        /\ ~IsInfo(LastFrame, {200, 400, 401, 403, 429})
              => hs.st \in {"waiting", "TimeoutError"}

\* C26 as the code has it: the frames that leave the handshake waiting are
\* the info frames of another code and the JSON frames of another type; a
\* close, closing or closed frame raises WebSocketClosure, an error frame or
\* a frame of another kind WebSocketException, and a text frame that is no
\* JSON the error of json.loads.
C26_VerifyRepliesAmended ==
    Len(hs.seen) > 0 =>
        LET f == LastFrame
        IN  /\ DecisiveCodes
            /\ (f.kind = "text" /\ f.type \in {"ntp", "data", "verify"})
                  => hs.st \in {"waiting", "TimeoutError"}
            /\ (f.kind = "text" /\ f.type = "info"
                    /\ f.code \notin {200, 400, 401, 403, 429})
                  => hs.st \in {"waiting", "TimeoutError"}
            /\ f.kind \in {"close", "closing", "closed"} => hs.st = "WebSocketClosure"
            /\ f.kind \in {"error", "ping"} => hs.st = "WebSocketException"
            /\ (f.kind = "text" /\ f.type = "undecodable") => hs.st = "JSONDecodeError"

\* C26 witness: an info frame of code 503 left the handshake waiting and the
\* info frame of code 200 that followed ended it with both services
C26_Witness ==
    /\ Len(hs.seen) = 2
    /\ IsInfo(hs.seen[1], {503})
    /\ IsInfo(hs.seen[2], {200})
    /\ hs.st = "subscribed"
    /\ hs.subscribed_services = {"websocket.eew", "websocket.trem.eew"}

\* C27: once a subscribe has been rejected with 401 or 403 and the supervisor
\* has gone over to the HTTP poller, the socket on which the rejection was
\* received is closed.
C27_RejectedSocketClosed ==
    (authFailed /\ pc = "http") => rejected = "closed"

\* C28: a subscribed session never waits for a frame for more than 90 seconds:
\* by then the reconnect signal has taken the supervisor out of pool_event.
C28_IdleReconnect ==
    (pc = "recv" /\ ws = "open") => idle <= 90

\* C29: when a subscribe message was not answered within 60 seconds, at the
\* dial or at a re-subscribe, the supervisor sleeps for its reconnect delay
\* and its next loop iteration makes a new attempt, that is, dials.
C29_HandshakeTimeout ==
    /\ [](cause \in {"timeout_dial", "timeout_resubscribe"} =>
            (pc = "sleep" => delay >= DelayStep))
    /\ [][(pc = "top" /\ ~closed /\ cause \in {"timeout_dial", "timeout_resubscribe"})
            => pc' = "dial"]_vars

\* C30: after a closure met while subscribed the socket is closed by the time
\* the supervisor sleeps, the sleep has a positive delay, and the loop
\* iteration that follows it dials (unless close() was called meanwhile).
C30_ClosureReconnects ==
    /\ []((cause = "closure" /\ pc \in {"sleep", "top", "dial"}) =>
            (ws = "closed" /\ delay >= DelayStep /\ in_reconnect))
    /\ [][(pc = "top" /\ ~closed /\ cause = "closure") => pc' = "dial"]_vars

\* C30 witness: the supervisor dials again after a closure and its delay
C30_Witness ==
    /\ pc = "dial" /\ cause = "closure"
    /\ ws = "closed" /\ ~closed
    /\ delay = DelayStep

\* C37: the entry of the node list at the current index is the base URL of
\* the next request.
C37_IndexDesignatesUrl ==
    pool.list[pool.idx + 1].node = pool.url

\* C38: closed() is true only after close() was called by the owner of the
\* client, and it is false while a poller loop of the client is running and
\* no such call was made.
C38_ClosedOnlyOnRequest ==
    /\ closed => closeRequested
    /\ (ActiveLoops # {} /\ ~closeRequested) => ~closed

\* C40: at most one get_eew task is in flight in the whole client.
C40_OneFetch ==
    Cardinality(fetching) + orphans <= 1

\* C32: a frame whose handling fails (malformed JSON, unrecognised type) is
\* discarded: the supervisor is back in pool_event on the same open socket,
\* no reconnect delay is entered.
C32_BadFrameDiscarded ==
    cause = "error" => (pc = "recv" /\ ws = "open" /\ delay = 0 /\ ~in_reconnect)

Visible(st, t) == [st EXCEPT !.alerts = Expire(st.alerts, t)]

\* C39: a poll whose only bulletin cannot be decoded leaves the visible alert
\* table, the computations and the dispatched events as they were, and every
\* bulletin handled next has the effect it would have had without that poll.
C39_FailedDecodeLeavesNoTrace ==
    [][(last'.op = "get_eew_bad" /\ Len(last'.ids) = 1) =>
        LET after == [alerts |-> alerts', calcs |-> calcs', trace |-> trace']
        IN  /\ Expire(alerts', now) = Expire(alerts, now)
            /\ calcs' = calcs
            /\ trace' = trace
            /\ \A d \in Bulletins(now) :
                   Visible(on_eew(eew_source, after, d, now), now)
                       = Visible(on_eew(eew_source, State, d, now), now)]_vars

\* C39 witness: the undecodable bulletin was the first of alert B, from an
\* accepted provider, while alert A is in the table with its computation
\* started: B is not in the table
C39_Witness ==
    /\ last.op = "get_eew_bad" /\ last.ids = <<"B">>
    /\ eew_source.none \/ AuthorOf("B") \in eew_source.list
    /\ DOMAIN Expire(alerts, now) = {"A"}
    /\ Len(calcs) > 0

\* C35: an alert the Discord notifier tracks is lifted exactly once when the
\* clock passes origin_time + 120 s, dispatch of lift_eew or not: once the
\* loop has had its turn in a second later than origin_time + 120 s, the alert
\* is no longer tracked, and no id has more lifts than EEWMessages objects
C35_LiftedOnInactivity ==
    /\ \A id \in AlertIds :
          (bot.alerts[id].tracked /\ (bot.ticked \/ bot.loop = "idle"))
              => bot.now <= bot.alerts[id].origin + LiftAfter
    /\ \A id \in AlertIds :
          bot.lifts[id] + (IF bot.alerts[id].tracked THEN 1 ELSE 0) = bot.sends[id]

\* the entries of the log for data frames whose inner type is eew
EewReads == {i \in DOMAIN sock.log :
                sock.log[i].frame.type = "data" /\ sock.log[i].frame.inner = "eew"}

\* C31: every data frame of inner type eew received while subscribed gives
\* exactly one invocation of on_eew, and the payload handed on carries the
\* outer frame's time
C31_EewFrameInvokesOnEew ==
    \A i \in EewReads :
        sock.log[i].by = "pool_event"
            => (sock.log[i].invoked = 1 /\ sock.log[i].time = sock.log[i].frame.time)

\* C36: every eew data frame read from the socket is forwarded, the frames
\* read while a re-subscribe waits for its info reply included. Forwarding is
\* taken at its first step, the call of _emit with the eew event, whatever
\* is registered for it
C36_EewFrameForwarded ==
    \A i \in EewReads : sock.log[i].emitted = Member("eew")

\* C34: once computed, city_max_intensity maps every city to the entry of one
\* of its regions in the current expected-intensity map, and no region of the
\* city has a greater float intensity in that map
C34_CityMaxFromCurrentMap ==
    ~quake._city_max_intensity.none =>
        \A c \in Cities :
            LET m == quake._city_max_intensity.map[c]
                cur == quake._expected_intensity.map
            IN  /\ m.code \in CodesOf(REGIONS_GROUP_BY_CITY[c])
                /\ m.code \in DOMAIN cur
                /\ cur[m.code] = m
                /\ \A r \in CodesOf(REGIONS_GROUP_BY_CITY[c]) \cap DOMAIN cur :
                       cur[r]._float_value <= m._float_value
====
